---- MODULE Spec2Model ----
(***************************************************************************)
(* Model of the refinement-cycle orchestrator of reb00t/helix:             *)
(* CoordinatorAgent.run_refinement_cycle with its Planner, its interaction *)
(* hook (Feedback Gate) and the JSON ProgressManager (Progress Store).     *)
(*                                                                         *)
(* A text is a sequence of tokens (words and punctuation marks); Python    *)
(* string concatenation and f-string interpolation are sequence            *)
(* concatenation, `x in s` is containment of a contiguous token sequence.  *)
(***************************************************************************)
EXTENDS Integers, Sequences, FiniteSets, TLC

\* ------------------------------------------------------------------------
\* Bounds of the model
\* ------------------------------------------------------------------------
MaxCycles == 1
MaxAttemptsBound == 3
\* direct calls of one method on one agent object that change its state
MaxCalls == 2
\* tokens of a free text drawn for a direct call
MaxTextLen == 2
\* files a plan drawn for a direct call can name
MaxFiles == 4
\* entries of a details or notes list in a direct call on the store
MaxItems == 2
\* accept_user_feedback calls a caller makes after its cycles
MaxFeedbackCalls == 1
\* steps of a playbook
MaxSteps == 4

\* ------------------------------------------------------------------------
\* Text helpers
\* ------------------------------------------------------------------------
LowerWord(w) ==
    CASE w = "Major" -> "major"
      [] w = "Breaking" -> "breaking"
      [] w = "Architecture" -> "architecture"
      [] w = "Progress" -> "progress"
      [] w = "Integration" -> "integration"
      [] w = "Preparation" -> "preparation"
      [] w = "Refinement" -> "refinement"
      [] w = "Stop" -> "stop"
      [] w = "User" -> "user"
      [] w = "Implementation" -> "implementation"
      [] w = "Continue" -> "continue"
      [] w = "Simplify" -> "simplify"
      [] w = "Different" -> "different"
      [] w = "Approach" -> "approach"
      [] w = "Anyway" -> "anyway"
      [] w = "Quit" -> "quit"
      [] w = "EXIT" -> "exit"
      [] w = "Y" -> "y"
      [] w = "YES" -> "yes"
      [] w = "True" -> "true"
      [] OTHER -> w

Lower(text) == [i \in DOMAIN text |-> LowerWord(text[i])]

Contains(text, pat) ==
    \E i \in 1..(Len(text) + 1) :
        /\ i + Len(pat) - 1 <= Len(text)
        /\ SubSeq(text, i, i + Len(pat) - 1) = pat

RECURSIVE Join(_, _)
Join(list, sep) ==
    IF list = <<>> THEN <<>>
    ELSE IF Len(list) = 1 THEN list[1]
    ELSE list[1] \o sep \o Join(Tail(list), sep)

\* ------------------------------------------------------------------------
\* Progress Store (progress_manager.py): a JSON file holding one object
\* ------------------------------------------------------------------------
DefaultStep == <<"A:", "Preparation", ",", "step", "1">>

\* the file is absent, or holds the members of one JSON object in order
NoFile == [exists |-> FALSE, members |-> <<>>]

HasKey(members, key) == \E i \in DOMAIN members : members[i][1] = key

Lookup(members, key) ==
    members[CHOOSE i \in DOMAIN members : members[i][1] = key][2]

\* json.load followed by the back-fill of the four required fields
load_progress(f) ==
    IF ~f.exists
    THEN [task |-> <<>>, step |-> DefaultStep, details |-> <<>>, notes |-> <<>>]
    ELSE [task    |-> IF HasKey(f.members, "task") THEN Lookup(f.members, "task") ELSE <<>>,
          step    |-> IF HasKey(f.members, "step") THEN Lookup(f.members, "step") ELSE DefaultStep,
          details |-> IF HasKey(f.members, "details") THEN Lookup(f.members, "details") ELSE <<>>,
          notes   |-> IF HasKey(f.members, "notes") THEN Lookup(f.members, "notes") ELSE <<>>]

\* mutation: the task member is not written
write_progress_NoTask(progress) ==
    [exists |-> TRUE,
     members |-> << <<"step", progress.step>>,
                    <<"details", progress.details>>, <<"notes", progress.notes>> >>]

\* json.dump of the progress dict
write_progress(progress) ==
    [exists |-> TRUE,
     members |-> << <<"task", progress.task>>, <<"step", progress.step>>,
                    <<"details", progress.details>>, <<"notes", progress.notes>> >>]

\* mutation: a list that is not supplied is written as an empty list
update_progress_ResetLists(f, upd) ==
    LET current == load_progress(f)
        merged == [k \in DOMAIN current |->
                      IF k \in DOMAIN upd THEN upd[k]
                      ELSE IF k \in {"details", "notes"} THEN <<>>
                      ELSE current[k]]
    IN write_progress(merged)

\* upd holds the supplied (non-None) arguments only
update_progress(f, upd) ==
    LET current == load_progress(f)
        merged == [k \in DOMAIN current |->
                      IF k \in DOMAIN upd THEN upd[k] ELSE current[k]]
    IN write_progress(merged)

add_note(f, note) ==
    LET current == load_progress(f)
    IN update_progress(f, [notes |-> Append(current.notes, note)])

add_detail(f, detail) ==
    LET current == load_progress(f)
    IN update_progress(f, [details |-> Append(current.details, detail)])

\* CoordinatorAgent._update_progress: step, details or [], notes or []
coord_update_progress(f, step, details, notes) ==
    update_progress(f, [step |-> step, details |-> details, notes |-> notes])

\* ------------------------------------------------------------------------
\* Plans (planner_agent.py, planner.py)
\* ------------------------------------------------------------------------
\* structured objects the generative call can return
RawPlans ==
    { [summary |-> <<"Add", "tests">>, description |-> <<"Small", "fix">>,
       priority |-> "high", goals |-> <<"g1">>, files_to_modify |-> <<"f1">>,
       tests_to_add |-> <<"t1">>],
      [summary |-> <<"Track", "progress">>,
       description |-> <<"Add", "Progress", "Integration">>,
       goals |-> <<"g1", "g2">>, files_to_modify |-> <<"f1", "f2", "f3">>,
       tests_to_add |-> <<>>, success_criteria |-> <<>>],
      [summary |-> <<"Refactor">>, description |-> <<"Major", "refactoring">>,
       priority |-> "low", goals |-> <<"g1">>, files_to_modify |-> <<"f1">>,
       tests_to_add |-> <<"t1", "t2">>, success_criteria |-> <<"c1">>],
      [summary |-> <<"Wire", "modules">>,
       description |-> <<"progress", "integration", "across", "modules">>,
       files_to_modify |-> <<"f1", "f2", "f3", "f4">>, tests_to_add |-> <<"t1">>] }

\* outcome of AbstractAgent.generate: a parsed object, or an exception
LLMFailure == [failed |-> TRUE]
LLMResults == {LLMFailure} \cup {[failed |-> FALSE, data |-> p] : p \in RawPlans}

RequiredFields == {"summary", "description", "goals", "files_to_modify", "tests_to_add"}

PlanId(n) == <<"plan_", ToString(n)>>

\* mutation: the plan number is the length of the history, not the next index
validate_and_enhance_plan_ZeroBased(raw, history, now) ==
    LET filled == [k \in (DOMAIN raw) \cup RequiredFields |->
                      IF k \in DOMAIN raw THEN raw[k] ELSE <<>>]
        stamped == [k \in (DOMAIN filled) \cup {"created_at", "plan_id"} |->
                      IF k = "created_at" THEN now
                      ELSE IF k = "plan_id" THEN PlanId(Len(history))
                      ELSE filled[k]]
        goaled == [stamped EXCEPT !["goals"] =
                      IF @ = <<>>
                      THEN << "Continue development according to spec" >>
                      ELSE @]
        prio == [k \in (DOMAIN goaled) \cup {"priority"} |->
                      IF k \in DOMAIN goaled THEN goaled[k] ELSE "medium"]
    IN [k \in (DOMAIN prio) \cup {"success_criteria"} |->
           IF k = "success_criteria"
           THEN IF k \in DOMAIN prio /\ prio[k] # <<>> THEN prio[k]
                ELSE << "All goals completed successfully", "Tests passing",
                        "Progress updated" >>
           ELSE prio[k]]

validate_and_enhance_plan(raw, history, now) ==
    LET filled == [k \in (DOMAIN raw) \cup RequiredFields |->
                      IF k \in DOMAIN raw THEN raw[k] ELSE <<>>]
        stamped == [k \in (DOMAIN filled) \cup {"created_at", "plan_id"} |->
                      IF k = "created_at" THEN now
                      ELSE IF k = "plan_id" THEN PlanId(Len(history) + 1)
                      ELSE filled[k]]
        goaled == [stamped EXCEPT !["goals"] =
                      IF @ = <<>>
                      THEN << "Continue development according to spec" >>
                      ELSE @]
        prio == [k \in (DOMAIN goaled) \cup {"priority"} |->
                      IF k \in DOMAIN goaled THEN goaled[k] ELSE "medium"]
    IN [k \in (DOMAIN prio) \cup {"success_criteria"} |->
           IF k = "success_criteria"
           THEN IF k \in DOMAIN prio /\ prio[k] # <<>> THEN prio[k]
                ELSE << "All goals completed successfully", "Tests passing",
                        "Progress updated" >>
           ELSE prio[k]]

\* PlannerAgent._analyze_current_state: the priority areas of the analysis
priority_areas(current_progress) ==
    LET current_step == Lower(current_progress.step)
    IN IF Contains(current_step, <<"preparation">>)
       THEN <<"spec_completion", "basic_structure", "testing_framework">>
       ELSE IF Contains(current_step, <<"refinement">>)
            THEN <<"implementation", "testing", "integration">>
            ELSE <<>>

\* Planner.plan_next_refinement: the plan used when create_plan fails
FallbackPlan ==
    [summary |-> <<"Continue", "development", "according", "to", "current", "progress">>,
     description |-> <<"Proceed", "with", "next", "development", "steps", "based",
                       "on", "current", "state">>,
     goals |-> <<"Continue implementation", "Update tests", "Maintain progress">>,
     files_to_modify |-> <<"reb00t/helix/agentic_system.py">>,
     tests_to_add |-> <<"basic_functionality_test">>]

PlanGet(plan, key, default) == IF key \in DOMAIN plan THEN plan[key] ELSE default

\* mutation: three files to modify already make a plan complex
requires_user_feedback_ThreeFiles(plan) ==
    \/ Len(PlanGet(plan, "files_to_modify", <<>>)) >= 3
    \/ Contains(Lower(PlanGet(plan, "description", <<>>)), <<"breaking">>)
    \/ Contains(Lower(PlanGet(plan, "description", <<>>)), <<"major">>)
    \/ Contains(Lower(PlanGet(plan, "description", <<>>)), <<"architecture">>)

requires_user_feedback(plan) ==
    \/ Len(PlanGet(plan, "files_to_modify", <<>>)) > 3
    \/ Contains(Lower(PlanGet(plan, "description", <<>>)), <<"breaking">>)
    \/ Contains(Lower(PlanGet(plan, "description", <<>>)), <<"major">>)
    \/ Contains(Lower(PlanGet(plan, "description", <<>>)), <<"architecture">>)

\* ------------------------------------------------------------------------
\* Feedback Gate (interaction_hook.py): the {text, continue} pairs a hook
\* can return
\* ------------------------------------------------------------------------
FeedbackTexts ==
    { <<>>, <<"Stop", "refinement">>, <<"continue", "anyway">>,
      <<"try", "a", "Different", "approach">>, <<"simplify">> }

Feedbacks == [text : FeedbackTexts, continue : BOOLEAN]

NoFeedback == [text |-> <<>>, continue |-> TRUE]

\* ------------------------------------------------------------------------
\* Messages
\* ------------------------------------------------------------------------
UserStopMessage == <<"User", "chose", "to", "stop", "refinement", "cycle">>
ReadErrorMessage == <<"Error", "reading", "progress", "file">>
WriteErrorMessage == <<"Error", "writing", "progress", "file">>
HookErrorMessage == <<"interaction", "hook", "raised">>
NotImplementedMessage ==
    <<"WebhookInteractionHook", "requires", "implementation", "of", "actual",
      "webhook", "handling">>
CycleFailedPrefix == <<"Refinement", "cycle", "failed:">>
ImplementationFailedMessage ==
    <<"Implementation", "failed", "after", "multiple", "attempts">>
StopReason ==
    <<"User", "chose", "to", "stop", "after", "implementation", "failure">>

StoreErrorMessages == {ReadErrorMessage, WriteErrorMessage}

\* ------------------------------------------------------------------------
\* Verification capability: the results _run_e2e_tests can report
\* ------------------------------------------------------------------------
TestResults ==
    { [passed |-> TRUE, errors |-> <<>>],
      [passed |-> FALSE, errors |-> <<"e1", "e2">>],
      [passed |-> FALSE, errors |-> <<"e1", "e2", "e3">>] }

NoTestResult == [passed |-> TRUE, errors |-> <<>>]

fix_implementation(errors) ==
    [fix_applied |-> TRUE,
     fix_description |-> <<"Applied", "fixes", "for", ToString(Len(errors)), "errors">>]

\* mutation: two reported errors already count as over-strict expectations
consider_test_adjustment_AtLeastTwo(errors) ==
    IF Len(errors) >= 2
    THEN [adjusted |-> TRUE,
          reason |-> <<"Test", "expectations", "were", "too", "strict">>]
    ELSE [adjusted |-> FALSE, reason |-> <<"Test", "adjustment", "not", "needed">>]

consider_test_adjustment(errors) ==
    IF Len(errors) > 2
    THEN [adjusted |-> TRUE,
          reason |-> <<"Test", "expectations", "were", "too", "strict">>]
    ELSE [adjusted |-> FALSE, reason |-> <<"Test", "adjustment", "not", "needed">>]

\* mutation: the continue flag of the answer is not looked at
classify_decision_TextOnly(user_decision) ==
    LET feedback_text == Lower(user_decision.text)
    IN IF Contains(feedback_text, <<"different">>)
          \/ Contains(feedback_text, <<"approach">>) THEN "retry_different"
       ELSE IF Contains(feedback_text, <<"simplify">>) THEN "simplify"
       ELSE IF Contains(feedback_text, <<"continue">>)
               \/ Contains(feedback_text, <<"anyway">>) THEN "continue"
       ELSE "retry"

\* CoordinatorAgent._handle_implementation_failure, after the hook answered
classify_decision(user_decision) ==
    LET feedback_text == Lower(user_decision.text)
    IN IF ~user_decision.continue THEN "stop"
       ELSE IF Contains(feedback_text, <<"different">>)
               \/ Contains(feedback_text, <<"approach">>) THEN "retry_different"
       ELSE IF Contains(feedback_text, <<"simplify">>) THEN "simplify"
       ELSE IF Contains(feedback_text, <<"continue">>)
               \/ Contains(feedback_text, <<"anyway">>) THEN "continue"
       ELSE "retry"

\* mutation: "continue"/"anyway" is looked for before the other keywords
handle_implementation_failure_ContinueFirst(user_decision) ==
    LET feedback_text == Lower(user_decision.text)
    IN IF ~user_decision.continue
       THEN [action |-> "stop", reason |-> StopReason]
       ELSE IF Contains(feedback_text, <<"continue">>)
               \/ Contains(feedback_text, <<"anyway">>)
            THEN [action |-> "continue", guidance |-> user_decision.text]
       ELSE [action |-> classify_decision(user_decision),
             guidance |-> user_decision.text]

\* the dict _handle_implementation_failure returns for the answer of the hook
handle_implementation_failure(user_decision) ==
    IF classify_decision(user_decision) = "stop"
    THEN [action |-> "stop", reason |-> StopReason]
    ELSE [action |-> classify_decision(user_decision),
          guidance |-> user_decision.text]

\* mutation: the description is searched as written, not in lower case
analyze_spec_changes_needed_CaseSensitive(plan) ==
    Contains(plan.description, <<"progress", "integration">>)

analyze_spec_changes_needed(plan) ==
    Contains(Lower(plan.description), <<"progress", "integration">>)

\* ------------------------------------------------------------------------
\* State
\* ------------------------------------------------------------------------
VARIABLES
    pc,                 \* position of the one caller inside run_refinement_cycle
    file,               \* the progress file
    spec,               \* argument of the running run_refinement_cycle call
    results,            \* the Cycle Result of the running or last cycle
    current_progress,   \* CoordinatorAgent.current_progress
    current_plan,       \* CoordinatorAgent.current_plan
    max_attempts,       \* CoordinatorAgent.max_implementation_attempts
    plan_history,       \* PlannerAgent.plan_history
    plan,               \* local `plan` of Planner.plan_next_refinement
    planner_ok,         \* planner_result["success"]
    user_feedback,      \* the last answer of the interaction hook
    attempt,            \* loop variable of _check_and_fix_tests
    test_result,        \* last result of _run_e2e_tests
    test_check_result,  \* return value of _check_and_fix_tests
    exc,                \* message of the exception in flight
    interaction_count,  \* number of hook invocations so far
    cycles,             \* number of run_refinement_cycle calls so far
    runs,               \* verification runs of this cycle
    fix_count,          \* corrective actions of this cycle
    gate_calls,         \* hook invocations of this cycle, by call site
    outcomes,           \* verification outcomes of this cycle, in order
    plan_review,        \* answer of the hook at plan review in this cycle
    fault_at,           \* where a collaborator failed in this cycle
    llm_outcome,        \* how the generative call of the last create_plan ended
    user_feedback_required, \* local of Planner.plan_next_refinement
    user_decision,      \* return value of _handle_implementation_failure
    store_call,         \* the last call made directly on the ProgressManager
    writers,            \* processes running add_note on the same progress file
    cli,                \* a request_user_feedback call on the CLIInteractionHook
    hook,               \* constructor arguments of the MockInteractionHook
    plan_ref,           \* which plan_history entry is the dict current_plan (0: none)
    feedback_call,      \* the last accept_user_feedback call and its return value
    feedback_calls,     \* number of accept_user_feedback calls made
    history_copy,       \* the list a caller got from get_plan_history
    md,                 \* the progress.md file of the markdown ProgressManager
    md_call,            \* the last call made on the markdown ProgressManager
    system              \* fields of the AgenticSystem object

vars == << pc, file, spec, results, current_progress, current_plan,
           max_attempts, plan_history, plan, planner_ok, user_feedback,
           attempt, test_result, test_check_result, exc, interaction_count,
           cycles, runs, fix_count, gate_calls, outcomes, plan_review,
           fault_at, llm_outcome, user_feedback_required, user_decision,
           store_call, writers, cli, hook, plan_ref, feedback_call,
           feedback_calls, history_copy, md, md_call, system >>

\* variables of the agent objects and of the store
agent_vars == << current_plan, max_attempts, plan_history, interaction_count >>
\* locals of the stages
plan_vars == << plan, planner_ok, user_feedback, plan_review, llm_outcome,
               user_feedback_required >>
test_vars == << attempt, test_result, test_check_result, runs, fix_count,
               outcomes, user_decision >>
\* state of the objects that are called outside a refinement cycle
feedback_vars == << feedback_call, feedback_calls, history_copy >>
late_vars == << md, md_call, system >>
extra_vars == << hook, plan_ref, feedback_vars, late_vars >>
direct_vars == << store_call, writers, cli, extra_vars >>

NoPlan == [none |-> TRUE]
NoProgress == [none |-> TRUE]
NoResult == [status |-> "none", attempts |-> 0]
NoException == <<>>
NoDecision == [action |-> "none"]
NoCall == [op |-> "none"]
Writers == {"w1", "w2"}
IdleWriter == [pc |-> "idle", overlapped |-> FALSE]
NoPair == [none |-> TRUE]
\* MockInteractionHook(): auto_continue=True, default_feedback=""
DefaultMock == [auto_continue |-> TRUE, default_feedback |-> <<>>]
\* AgenticSystem.__init__
NewSystem == [playbook |-> <<>>, progress |-> 0, history |-> <<>>, raised |-> FALSE]
NoFeedbackCall == [feedback |-> [none |-> TRUE]]
IdleCLI ==
    [pc |-> "idle", typed |-> <<>>, answer |-> <<>>, prompts |-> 0,
     interrupt |-> "none", result |-> NoPair, raised |-> FALSE]
Specs == {"None", "text"}

FreshResults ==
    [cycle_completed |-> FALSE, steps_completed |-> <<>>, errors |-> <<>>,
     user_feedback_required |-> FALSE, spec_changed |-> FALSE,
     committed |-> FALSE]

StepLabel(n) == <<"B:", "Refinement", ",", "step", n>>

\* progress files the process can find when it starts: none, the file left
\* by a completed cycle of an earlier process, a file holding a step only
InitialFiles ==
    { NoFile,
      write_progress([task |-> <<>>, step |-> StepLabel("7"),
                      details |-> << <<"Refinement", "cycle", "completed",
                                       "successfully">> >>,
                      notes |-> << <<"Completed", "plan:", "Add", "tests">> >>]),
      [exists |-> TRUE, members |-> << <<"step", StepLabel("2")>> >>] }

Init ==
    /\ pc = "idle"
    /\ file \in InitialFiles
    /\ spec = "text"
    /\ results = FreshResults
    /\ current_progress = NoProgress
    /\ current_plan = NoPlan
    /\ max_attempts \in 1..MaxAttemptsBound
    /\ plan_history = <<>>
    /\ plan = NoPlan
    /\ planner_ok = FALSE
    /\ user_feedback = NoFeedback
    /\ attempt = 0
    /\ test_result = NoTestResult
    /\ test_check_result = NoResult
    /\ exc = NoException
    /\ interaction_count = 0
    /\ cycles = 0
    /\ runs = 0
    /\ fix_count = 0
    /\ gate_calls = [plan |-> 0, failure |-> 0]
    /\ outcomes = <<>>
    /\ plan_review = "none"
    /\ fault_at = "none"
    /\ llm_outcome = "none"
    /\ user_feedback_required = FALSE
    /\ user_decision = NoDecision
    /\ store_call = NoCall
    /\ writers = [w \in Writers |-> IdleWriter]
    /\ cli = IdleCLI
    /\ hook = DefaultMock
    /\ plan_ref = 0
    /\ feedback_call = NoFeedbackCall
    /\ feedback_calls = 0
    /\ history_copy = <<>>
    /\ md = [exists |-> FALSE, lines |-> <<>>]
    /\ md_call = NoCall
    /\ system = NewSystem

\* mutation: the stage is put in front of the list
Completed_Prepend(stage) ==
    results' = [results EXCEPT !.steps_completed = <<stage>> \o @]

Completed(stage) ==
    results' = [results EXCEPT !.steps_completed = Append(@, stage)]

\* ------------------------------------------------------------------------
\* run_refinement_cycle, entry
\* ------------------------------------------------------------------------
\* the caller starts a further cycle only after cycles in which no
\* collaborator failed
BeginCycle ==
    /\ pc \in {"idle", "returned"}
    /\ fault_at = "none"
    /\ cycles < MaxCycles
    /\ \E s \in Specs : spec' = s
    /\ results' = FreshResults
    /\ cycles' = cycles + 1
    /\ plan' = NoPlan
    /\ planner_ok' = FALSE
    /\ user_feedback' = NoFeedback
    /\ attempt' = 0
    /\ test_result' = NoTestResult
    /\ test_check_result' = NoResult
    /\ exc' = NoException
    /\ runs' = 0
    /\ fix_count' = 0
    /\ gate_calls' = [plan |-> 0, failure |-> 0]
    /\ outcomes' = <<>>
    /\ plan_review' = "none"
    /\ fault_at' = "none"
    /\ llm_outcome' = "none"
    /\ user_feedback_required' = FALSE
    /\ user_decision' = NoDecision
    /\ pc' = "load"
    /\ UNCHANGED << file, current_progress, agent_vars >>
    /\ UNCHANGED direct_vars

LoadProgress ==
    /\ pc = "load"
    /\ current_progress' = load_progress(file)
    /\ pc' = "create_plan"
    /\ UNCHANGED << file, spec, results, agent_vars, plan_vars, test_vars, exc,
                    cycles, gate_calls, fault_at >>
    /\ UNCHANGED direct_vars

\* ------------------------------------------------------------------------
\* Stage 1: Planner.plan_next_refinement
\* ------------------------------------------------------------------------
CreatePlan ==
    /\ pc = "create_plan"
    /\ \E r \in (IF spec = "None" THEN {LLMFailure} ELSE LLMResults) :
         IF r.failed
         THEN /\ llm_outcome' = "error"
              /\ planner_ok' = FALSE
              /\ plan' = FallbackPlan
              /\ plan_history' = plan_history
              /\ pc' = "plan_summary_note"
         ELSE LET validated_plan ==
                      validate_and_enhance_plan(r.data, plan_history, cycles)
              IN /\ llm_outcome' = "data"
                 /\ planner_ok' = TRUE
                 /\ plan' = validated_plan
                 /\ plan_history' = Append(plan_history, validated_plan)
                 /\ pc' = "plan_analysis_note"
    /\ UNCHANGED << file, spec, results, current_progress, current_plan,
                    max_attempts, interaction_count, user_feedback, plan_review,
                    user_feedback_required, test_vars, exc, cycles, gate_calls,
                    fault_at >>
    /\ UNCHANGED direct_vars

PlanAnalysisNote ==
    /\ pc = "plan_analysis_note"
    /\ file' = add_note(file, <<"Plan", "analysis:">> \o priority_areas(current_progress))
    /\ pc' = "plan_summary_note"
    /\ UNCHANGED << spec, results, current_progress, agent_vars, plan_vars,
                    test_vars, exc, cycles, gate_calls, fault_at >>
    /\ UNCHANGED direct_vars

PlanSummaryNote ==
    /\ pc = "plan_summary_note"
    /\ file' = add_note(file, <<"Generated", "refinement", "plan:">> \o plan.summary)
    /\ user_feedback_required' = requires_user_feedback(plan)
    /\ pc' = IF requires_user_feedback(plan) THEN "plan_gate" ELSE "plan_return"
    /\ UNCHANGED << spec, results, current_progress, agent_vars, plan,
                    planner_ok, user_feedback, plan_review, llm_outcome,
                    test_vars, exc, cycles, gate_calls, fault_at >>
    /\ UNCHANGED direct_vars

\* mutation: the continue flag of the plan review is not looked at
PlanGate_IgnoresStop ==
    /\ pc = "plan_gate"
    /\ \E fb \in Feedbacks :
         /\ user_feedback' = fb
         /\ plan_review' = IF fb.continue THEN "continue" ELSE "stop"
         /\ pc' = IF fb.text # <<>> THEN "plan_feedback_note"
                  ELSE "plan_approved_note"
    /\ interaction_count' = interaction_count + 1
    /\ gate_calls' = [gate_calls EXCEPT !.plan = @ + 1]
    /\ UNCHANGED << file, spec, results, current_progress, current_plan,
                    max_attempts, plan_history, plan, planner_ok, llm_outcome,
                    user_feedback_required, test_vars, exc, cycles, fault_at >>
    /\ UNCHANGED direct_vars

PlanGate ==
    /\ pc = "plan_gate"
    /\ \E fb \in Feedbacks :
         /\ user_feedback' = fb
         /\ plan_review' = IF fb.continue THEN "continue" ELSE "stop"
         /\ pc' = IF ~fb.continue THEN "plan_stop_update"
                  ELSE IF fb.text # <<>> THEN "plan_feedback_note"
                  ELSE "plan_approved_note"
    /\ interaction_count' = interaction_count + 1
    /\ gate_calls' = [gate_calls EXCEPT !.plan = @ + 1]
    /\ UNCHANGED << file, spec, results, current_progress, current_plan,
                    max_attempts, plan_history, plan, planner_ok, llm_outcome,
                    user_feedback_required, test_vars, exc, cycles, fault_at >>
    /\ UNCHANGED direct_vars

\* mutation: the stopped update is written but no abort is raised
PlanStopUpdate_NoRaise ==
    /\ pc = "plan_stop_update"
    /\ file' = update_progress(file,
                 [step |-> StepLabel("1"),
                  details |-> << <<"Plan", "created", "but", "user", "chose", "to", "stop">> >>,
                  notes |-> << <<"User", "feedback:">> \o user_feedback.text >>])
    /\ pc' = "plan_return"
    /\ UNCHANGED << spec, results, current_progress, agent_vars, plan_vars,
                    test_vars, exc, cycles, gate_calls, fault_at >>
    /\ UNCHANGED direct_vars

\* mutation: the plan stage is recorded before the abort is raised
PlanStopUpdate_Recorded ==
    /\ pc = "plan_stop_update"
    /\ file' = update_progress(file,
                 [step |-> StepLabel("1"),
                  details |-> << <<"Plan", "created", "but", "user", "chose", "to", "stop">> >>,
                  notes |-> << <<"User", "feedback:">> \o user_feedback.text >>])
    /\ results' = [results EXCEPT !.steps_completed = Append(@, "plan")]
    /\ exc' = UserStopMessage
    /\ pc' = "except"
    /\ UNCHANGED << spec, current_progress, agent_vars, plan_vars,
                    test_vars, cycles, gate_calls, fault_at >>
    /\ UNCHANGED direct_vars

\* mutation: the abort is raised without the stopped update
PlanStopUpdate_NotPersisted ==
    /\ pc = "plan_stop_update"
    /\ exc' = UserStopMessage
    /\ pc' = "except"
    /\ UNCHANGED << file, spec, results, current_progress, agent_vars,
                    plan_vars, test_vars, cycles, gate_calls, fault_at >>
    /\ UNCHANGED direct_vars

PlanStopUpdate ==
    /\ pc = "plan_stop_update"
    /\ file' = update_progress(file,
                 [step |-> StepLabel("1"),
                  details |-> << <<"Plan", "created", "but", "user", "chose", "to", "stop">> >>,
                  notes |-> << <<"User", "feedback:">> \o user_feedback.text >>])
    /\ exc' = UserStopMessage
    /\ pc' = "except"
    /\ UNCHANGED << spec, results, current_progress, agent_vars, plan_vars,
                    test_vars, cycles, gate_calls, fault_at >>
    /\ UNCHANGED direct_vars

PlanFeedbackNote ==
    /\ pc = "plan_feedback_note"
    /\ file' = add_note(file, <<"User", "feedback:">> \o user_feedback.text)
    /\ pc' = "plan_approved_note"
    /\ UNCHANGED << spec, results, current_progress, agent_vars, plan_vars,
                    test_vars, exc, cycles, gate_calls, fault_at >>
    /\ UNCHANGED direct_vars

PlanApprovedNote ==
    /\ pc = "plan_approved_note"
    /\ file' = add_note(file, <<"User", "approved", "plan", ",", "continuing",
                                "with", "refinement">>)
    /\ pc' = "plan_approved_update"
    /\ UNCHANGED << spec, results, current_progress, agent_vars, plan_vars,
                    test_vars, exc, cycles, gate_calls, fault_at >>
    /\ UNCHANGED direct_vars

PlanApprovedUpdate ==
    /\ pc = "plan_approved_update"
    /\ file' = update_progress(file,
                 [step |-> StepLabel("1") \o <<"(approved)">>,
                  details |-> << <<"Plan", "approved:">> \o plan.summary,
                                 <<"Proceeding", "with", "implementation">> >>,
                  notes |-> << <<"Plan", "details:">> \o plan.description >>])
    /\ pc' = "plan_return"
    /\ UNCHANGED << spec, results, current_progress, agent_vars, plan_vars,
                    test_vars, exc, cycles, gate_calls, fault_at >>
    /\ UNCHANGED direct_vars

\* _plan_next_refinement stores the plan; the caller records the stage
PlanReturn ==
    /\ pc = "plan_return"
    /\ current_plan' = plan
    /\ plan_ref' = IF planner_ok THEN Len(plan_history) ELSE 0
    /\ Completed("plan")
    /\ pc' = "adjust_test"
    /\ UNCHANGED << file, spec, current_progress, max_attempts, plan_history,
                    interaction_count, plan_vars, test_vars, exc, cycles,
                    gate_calls, fault_at >>
    /\ UNCHANGED << store_call, writers, cli, hook, feedback_vars, late_vars >>

\* ------------------------------------------------------------------------
\* Stages 2 and 3
\* ------------------------------------------------------------------------
test_adjustments(p) ==
    IF Contains(Lower(p.description), <<"progress", "integration">>)
    THEN << <<"Add", "progress", "functionality", "tests">>,
            <<"Verify", "progress", "events", "in", "history">>,
            <<"Test", "progress", "note", "addition">> >>
    ELSE <<>>

AdjustTest ==
    /\ pc = "adjust_test"
    /\ file' = add_note(file, <<"E2E", "test", "adjustments", "planned:">>
                               \o Join(test_adjustments(plan), <<",">>))
    /\ Completed("adjust_test")
    /\ pc' = "implement"
    /\ UNCHANGED << spec, current_progress, agent_vars, plan_vars, test_vars,
                    exc, cycles, gate_calls, fault_at >>
    /\ UNCHANGED direct_vars

Implement ==
    /\ pc = "implement"
    /\ LET implementation_results ==
               plan.goals \o PlanGet(plan, "tests_to_add", <<>>)
       IN file' = add_note(file, <<"Implementation", "completed:",
                                   ToString(Len(implementation_results)), "items">>)
    /\ Completed("implement")
    /\ attempt' = 0
    /\ pc' = IF 0 < max_attempts THEN "run_tests" ELSE "failed_note"
    /\ UNCHANGED << spec, current_progress, agent_vars, plan_vars, test_result,
                    test_check_result, runs, fix_count, outcomes, user_decision,
                    exc, cycles, gate_calls, fault_at >>
    /\ UNCHANGED direct_vars

\* ------------------------------------------------------------------------
\* Stage 4: _check_and_fix_tests
\* ------------------------------------------------------------------------
\* mutation: the loop takes the fix branch on the last attempt as well
RunTests_OffByOne ==
    /\ pc = "run_tests"
    /\ \E tr \in TestResults :
         /\ test_result' = tr
         /\ outcomes' = Append(outcomes, tr.passed)
         /\ pc' = IF tr.passed THEN "pass_note"
                  ELSE IF attempt < max_attempts THEN "fix_note"
                  ELSE IF consider_test_adjustment(tr.errors).adjusted
                       THEN "adjust_note"
                  ELSE "failed_note"
    /\ runs' = runs + 1
    /\ UNCHANGED << file, spec, results, current_progress, agent_vars,
                    plan_vars, attempt, test_check_result, fix_count,
                    user_decision, exc, cycles, gate_calls, fault_at >>
    /\ UNCHANGED direct_vars

RunTests ==
    /\ pc = "run_tests"
    /\ \E tr \in TestResults :
         /\ test_result' = tr
         /\ outcomes' = Append(outcomes, tr.passed)
         /\ pc' = IF tr.passed THEN "pass_note"
                  ELSE IF attempt < max_attempts - 1 THEN "fix_note"
                  ELSE IF consider_test_adjustment(tr.errors).adjusted
                       THEN "adjust_note"
                  ELSE "failed_note"
    /\ runs' = runs + 1
    /\ UNCHANGED << file, spec, results, current_progress, agent_vars,
                    plan_vars, attempt, test_check_result, fix_count,
                    user_decision, exc, cycles, gate_calls, fault_at >>
    /\ UNCHANGED direct_vars

\* mutation: the zero-based loop variable is reported as the attempt count
PassNote_ZeroBased ==
    /\ pc = "pass_note"
    /\ file' = add_note(file, <<"E2E", "tests", "passed", "on", "attempt",
                                ToString(attempt + 1)>>)
    /\ test_check_result' = [status |-> "passed", attempts |-> attempt]
    /\ pc' = "test_check_return"
    /\ UNCHANGED << spec, results, current_progress, agent_vars, plan_vars,
                    attempt, test_result, runs, fix_count, outcomes,
                    user_decision, exc, cycles, gate_calls, fault_at >>
    /\ UNCHANGED direct_vars

PassNote ==
    /\ pc = "pass_note"
    /\ file' = add_note(file, <<"E2E", "tests", "passed", "on", "attempt",
                                ToString(attempt + 1)>>)
    /\ test_check_result' = [status |-> "passed", attempts |-> attempt + 1]
    /\ pc' = "test_check_return"
    /\ UNCHANGED << spec, results, current_progress, agent_vars, plan_vars,
                    attempt, test_result, runs, fix_count, outcomes,
                    user_decision, exc, cycles, gate_calls, fault_at >>
    /\ UNCHANGED direct_vars

FixNote ==
    /\ pc = "fix_note"
    /\ LET fix_result == fix_implementation(test_result.errors)
       IN file' = add_note(file, <<"Attempt", ToString(attempt + 1), "failed", ",",
                                   "applying", "fix:">> \o fix_result.fix_description)
    /\ fix_count' = fix_count + 1
    /\ attempt' = attempt + 1
    /\ pc' = "run_tests"
    /\ UNCHANGED << spec, results, current_progress, agent_vars, plan_vars,
                    test_result, test_check_result, runs, outcomes,
                    user_decision, exc, cycles, gate_calls, fault_at >>
    /\ UNCHANGED direct_vars

AdjustNote ==
    /\ pc = "adjust_note"
    /\ file' = add_note(file, <<"Adjusted", "e2e", "test:">>
                               \o consider_test_adjustment(test_result.errors).reason)
    /\ test_check_result' = [status |-> "test_adjusted", attempts |-> attempt + 1]
    /\ pc' = "test_check_return"
    /\ UNCHANGED << spec, results, current_progress, agent_vars, plan_vars,
                    attempt, test_result, runs, fix_count, outcomes,
                    user_decision, exc, cycles, gate_calls, fault_at >>
    /\ UNCHANGED direct_vars

FailedNote ==
    /\ pc = "failed_note"
    /\ file' = add_note(file, <<"Implementation", "failed", "after", "maximum",
                                "attempts">>)
    /\ pc' = "failure_gate"
    /\ UNCHANGED << spec, results, current_progress, agent_vars, plan_vars,
                    test_vars, exc, cycles, gate_calls, fault_at >>
    /\ UNCHANGED direct_vars

\* _handle_implementation_failure and the branch on its action
FailureGate ==
    /\ pc = "failure_gate"
    /\ \E fb \in Feedbacks :
         LET action == classify_decision(fb)
         IN /\ user_feedback' = fb
            /\ user_decision' = handle_implementation_failure(fb)
            /\ IF action = "stop"
               THEN /\ test_check_result' =
                          [status |-> "aborted", attempts |-> max_attempts,
                           reason |-> StopReason]
                    /\ pc' = "test_check_return"
               ELSE /\ test_check_result' = test_check_result
                    /\ pc' = IF action = "continue" THEN "continue_note"
                             ELSE "guidance_note"
    /\ interaction_count' = interaction_count + 1
    /\ gate_calls' = [gate_calls EXCEPT !.failure = @ + 1]
    /\ UNCHANGED << file, spec, results, current_progress, current_plan,
                    max_attempts, plan_history, plan, planner_ok, plan_review,
                    llm_outcome, user_feedback_required, attempt, test_result,
                    runs, fix_count, outcomes, exc, cycles, fault_at >>
    /\ UNCHANGED direct_vars

ContinueNote ==
    /\ pc = "continue_note"
    /\ file' = add_note(file, <<"User", "chose", "to", "continue", "despite",
                                "failures:">> \o user_feedback.text)
    /\ test_check_result' =
           [status |-> "continued_with_failures", attempts |-> max_attempts]
    /\ pc' = "test_check_return"
    /\ UNCHANGED << spec, results, current_progress, agent_vars, plan_vars,
                    attempt, test_result, runs, fix_count, outcomes,
                    user_decision, exc, cycles, gate_calls, fault_at >>
    /\ UNCHANGED direct_vars

\* mutation: every answer other than stop lets the cycle go on
GuidanceNote_Continues ==
    /\ pc = "guidance_note"
    /\ file' = add_note(file, <<"User", "guidance", "for", "next", "iteration:">>
                               \o user_feedback.text)
    /\ test_check_result' =
           [status |-> "continued_with_failures", attempts |-> max_attempts]
    /\ pc' = "test_check_return"
    /\ UNCHANGED << spec, results, current_progress, agent_vars, plan_vars,
                    attempt, test_result, runs, fix_count, outcomes,
                    user_decision, exc, cycles, gate_calls, fault_at >>
    /\ UNCHANGED direct_vars

GuidanceNote ==
    /\ pc = "guidance_note"
    /\ file' = add_note(file, <<"User", "guidance", "for", "next", "iteration:">>
                               \o user_feedback.text)
    /\ test_check_result' =
           [status |-> "aborted", attempts |-> max_attempts,
            user_guidance |-> user_feedback.text]
    /\ pc' = "test_check_return"
    /\ UNCHANGED << spec, results, current_progress, agent_vars, plan_vars,
                    attempt, test_result, runs, fix_count, outcomes,
                    user_decision, exc, cycles, gate_calls, fault_at >>
    /\ UNCHANGED direct_vars

TestCheckReturn ==
    /\ pc = "test_check_return"
    /\ IF test_check_result.status = "aborted"
       THEN /\ results' = [results EXCEPT
                             !.steps_completed = Append(@, "test_check"),
                             !.errors = Append(@, ImplementationFailedMessage)]
            /\ pc' = "abort_update"
       ELSE /\ Completed("test_check")
            /\ pc' = "spec_review"
    /\ UNCHANGED << file, spec, current_progress, agent_vars, plan_vars,
                    test_vars, exc, cycles, gate_calls, fault_at >>
    /\ UNCHANGED direct_vars

\* mutation: the cycle returns without the aborted update
AbortUpdate_NotPersisted ==
    /\ pc = "abort_update"
    /\ pc' = "returned"
    /\ UNCHANGED << file, spec, results, current_progress, agent_vars,
                    plan_vars, test_vars, exc, cycles, gate_calls, fault_at >>
    /\ UNCHANGED direct_vars

AbortUpdate ==
    /\ pc = "abort_update"
    /\ file' = coord_update_progress(file, StepLabel("4"),
                 << <<"Implementation", "aborted">>,
                    <<"Plan", "needs", "to", "change">> >>,
                 << <<"Multiple", "implementation", "attempts", "failed">> >>)
    /\ pc' = "returned"
    /\ UNCHANGED << spec, results, current_progress, agent_vars, plan_vars,
                    test_vars, exc, cycles, gate_calls, fault_at >>
    /\ UNCHANGED direct_vars

\* ------------------------------------------------------------------------
\* Stages 5 to 7
\* ------------------------------------------------------------------------
apply_spec_changes(changes) ==
    [summary |-> <<"Applied", ToString(Len(changes)), "spec", "changes">>]

SpecReview ==
    /\ pc = "spec_review"
    /\ LET changes_needed ==
               current_plan # NoPlan /\ analyze_spec_changes_needed(current_plan)
           changes == << "Add ProgressManager integration to AgenticSystem documentation",
                         "Update workflow to include progress tracking" >>
       IN /\ file' = IF changes_needed
                     THEN add_note(file, <<"Updated", "spec:">>
                                          \o apply_spec_changes(changes).summary)
                     ELSE add_note(file, <<"No", "spec", "changes", "needed">>)
          /\ results' = [results EXCEPT
                           !.steps_completed = Append(@, "spec_review"),
                           !.spec_changed = changes_needed]
    /\ pc' = "commit"
    /\ UNCHANGED << spec, current_progress, agent_vars, plan_vars, test_vars,
                    exc, cycles, gate_calls, fault_at >>
    /\ UNCHANGED direct_vars

Commit ==
    /\ pc = "commit"
    /\ file' = add_note(file, <<"Committed", "changes:">> \o plan.summary)
    /\ results' = [results EXCEPT
                     !.steps_completed = Append(@, "commit"),
                     !.committed = TRUE]
    /\ pc' = "should_continue"
    /\ UNCHANGED << spec, current_progress, agent_vars, plan_vars, test_vars,
                    exc, cycles, gate_calls, fault_at >>
    /\ UNCHANGED direct_vars

ShouldContinue ==
    /\ pc = "should_continue"
    /\ results' = [k \in (DOMAIN results) \cup {"should_continue", "completion_reason"} |->
                     IF k = "should_continue" THEN TRUE
                     ELSE IF k = "completion_reason"
                          THEN <<"More", "refinements", "available">>
                     ELSE IF k = "cycle_completed" THEN TRUE
                     ELSE results[k]]
    /\ pc' = "final_update"
    /\ UNCHANGED << file, spec, current_progress, agent_vars, plan_vars,
                    test_vars, exc, cycles, gate_calls, fault_at >>
    /\ UNCHANGED direct_vars

FinalUpdate ==
    /\ pc = "final_update"
    /\ file' = coord_update_progress(file, StepLabel("7"),
                 << <<"Refinement", "cycle", "completed", "successfully">> >>,
                 << <<"Completed", "plan:">> \o plan.summary >>)
    /\ pc' = "returned"
    /\ UNCHANGED << spec, results, current_progress, agent_vars, plan_vars,
                    test_vars, exc, cycles, gate_calls, fault_at >>
    /\ UNCHANGED direct_vars

\* mutation: the except clause lets store errors through
Except_Reraise ==
    /\ pc = "except"
    /\ IF exc \in StoreErrorMessages
       THEN /\ pc' = "raised"
            /\ results' = results
       ELSE /\ results' = [results EXCEPT !.errors = Append(@, CycleFailedPrefix \o exc)]
            /\ pc' = "returned"
    /\ UNCHANGED << file, spec, current_progress, agent_vars, plan_vars,
                    test_vars, exc, cycles, gate_calls, fault_at >>
    /\ UNCHANGED direct_vars

\* except Exception as e: ... return results
Except ==
    /\ pc = "except"
    /\ results' = [results EXCEPT !.errors = Append(@, CycleFailedPrefix \o exc)]
    /\ pc' = "returned"
    /\ UNCHANGED << file, spec, current_progress, agent_vars, plan_vars,
                    test_vars, exc, cycles, gate_calls, fault_at >>
    /\ UNCHANGED direct_vars

\* ------------------------------------------------------------------------
\* Failing collaborators
\* ------------------------------------------------------------------------
\* positions inside the try block whose next step reads and writes the store
StoreCallSites ==
    { "plan_analysis_note", "plan_summary_note", "plan_stop_update",
      "plan_feedback_note", "plan_approved_note", "plan_approved_update",
      "adjust_test", "implement", "pass_note", "fix_note", "adjust_note",
      "failed_note", "continue_note", "guidance_note", "abort_update",
      "spec_review", "final_update" }

\* load_progress at the start of the cycle raises, outside the try block
LoadFault ==
    /\ pc = "load"
    /\ exc' = ReadErrorMessage
    /\ fault_at' = "load"
    /\ pc' = "raised"
    /\ UNCHANGED << file, spec, results, current_progress, agent_vars,
                    plan_vars, test_vars, cycles, gate_calls >>
    /\ UNCHANGED direct_vars

\* a store call of a stage raises; the exception reaches the except clause
StoreFault ==
    /\ pc \in StoreCallSites
    /\ \E m \in StoreErrorMessages : exc' = m
    /\ fault_at' = pc
    /\ fix_count' = IF pc = "fix_note" THEN fix_count + 1 ELSE fix_count
    /\ pc' = "except"
    /\ UNCHANGED << file, spec, results, current_progress, agent_vars,
                    plan_vars, attempt, test_result, test_check_result, runs,
                    outcomes, user_decision, cycles, gate_calls >>
    /\ UNCHANGED direct_vars

\* the store call of _commit_changes raises; its own except clause catches it
CommitFault ==
    /\ pc = "commit"
    /\ results' = [results EXCEPT
                     !.steps_completed = Append(@, "commit"),
                     !.committed = FALSE]
    /\ fault_at' = "commit"
    /\ pc' = "should_continue"
    /\ UNCHANGED << file, spec, current_progress, agent_vars, plan_vars,
                    test_vars, exc, cycles, gate_calls >>
    /\ UNCHANGED direct_vars

\* the interaction hook raises instead of answering
HookFault ==
    /\ pc \in {"plan_gate", "failure_gate"}
    /\ exc' = HookErrorMessage
    /\ fault_at' = pc
    /\ gate_calls' = IF pc = "plan_gate"
                     THEN [gate_calls EXCEPT !.plan = @ + 1]
                     ELSE [gate_calls EXCEPT !.failure = @ + 1]
    /\ pc' = "except"
    /\ UNCHANGED << file, spec, results, current_progress, agent_vars,
                    plan_vars, test_vars, cycles >>
    /\ UNCHANGED direct_vars

\* ------------------------------------------------------------------------
\* A coordinator built with a WebhookInteractionHook
\* ------------------------------------------------------------------------
\* mutation: the placeholder answers with a default pair instead of raising
WebhookGate_Default ==
    /\ pc \in {"plan_gate", "failure_gate"}
    /\ user_feedback' = NoFeedback
    /\ plan_review' = IF pc = "plan_gate" THEN "continue" ELSE plan_review
    /\ test_check_result' =
           IF pc = "plan_gate" THEN test_check_result
           ELSE [status |-> "continued_with_failures", attempts |-> max_attempts]
    /\ gate_calls' = IF pc = "plan_gate"
                     THEN [gate_calls EXCEPT !.plan = @ + 1]
                     ELSE [gate_calls EXCEPT !.failure = @ + 1]
    /\ pc' = IF pc = "plan_gate" THEN "plan_return" ELSE "test_check_return"
    /\ UNCHANGED << file, spec, results, current_progress, agent_vars, plan,
                    planner_ok, llm_outcome, user_feedback_required, attempt,
                    test_result, runs, fix_count, outcomes, user_decision, exc,
                    cycles, fault_at >>
    /\ UNCHANGED direct_vars

\* WebhookInteractionHook.request_user_feedback raises NotImplementedError in
\* the plan stage or in _handle_implementation_failure; nothing between the
\* call and the except clause of run_refinement_cycle catches it
WebhookGate ==
    /\ pc \in {"plan_gate", "failure_gate"}
    /\ exc' = NotImplementedMessage
    /\ fault_at' = pc
    /\ gate_calls' = IF pc = "plan_gate"
                     THEN [gate_calls EXCEPT !.plan = @ + 1]
                     ELSE [gate_calls EXCEPT !.failure = @ + 1]
    /\ pc' = "except"
    /\ UNCHANGED << file, spec, results, current_progress, agent_vars,
                    plan_vars, test_vars, cycles >>
    /\ UNCHANGED direct_vars

\* ------------------------------------------------------------------------
\* A coordinator built with a MockInteractionHook
\* ------------------------------------------------------------------------
\* MockInteractionHook(auto_continue, default_feedback), before the first cycle
NewMockHook ==
    /\ pc = "idle"
    /\ \E fb \in Feedbacks :
         hook' = [auto_continue |-> fb.continue, default_feedback |-> fb.text]
    /\ interaction_count' = 0
    /\ UNCHANGED << pc, file, spec, results, current_progress, current_plan,
                    max_attempts, plan_history, plan_vars, test_vars, exc,
                    cycles, gate_calls, fault_at, store_call, writers, cli,
                    plan_ref, feedback_vars, late_vars >>

\* mutation: the mock approves whatever it was configured with
mock_answer_Approves(h) == [text |-> <<>>, continue |-> TRUE]

\* the dict MockInteractionHook.request_user_feedback returns
mock_answer(h) == [text |-> h.default_feedback, continue |-> h.auto_continue]

\* the plan review answered by the mock
MockPlanGate == PlanGate /\ user_feedback' = mock_answer(hook)

\* the failure escalation answered by the mock
MockFailureGate == FailureGate /\ user_feedback' = mock_answer(hook)

\* ------------------------------------------------------------------------
\* CoordinatorAgent.accept_user_feedback and PlannerAgent.get_plan_history,
\* called between cycles
\* ------------------------------------------------------------------------
ModifiedSummary == <<"Modified", "test", "plan">>

\* the "modifications" dicts of the feedback: a key of every plan together
\* with a key no plan has
Modifications == { [summary |-> ModifiedSummary, owner |-> <<"me">>] }

\* the feedback dicts a caller passes
FeedbackDicts ==
    { [invalid_key |-> <<"invalid_value">>] }
        \cup [approved : BOOLEAN]
        \cup [modifications : Modifications]
        \cup [approved : BOOLEAN, modifications : Modifications]

\* for key, value in modifications.items(): if key in plan: plan[key] = value
apply_modifications(p, modifications) ==
    [k \in DOMAIN p |-> IF k \in DOMAIN modifications THEN modifications[k]
                        ELSE p[k]]

\* the plan_history list after the dict that is current_plan became p
SharedHistory(p) ==
    IF plan_ref = 0 THEN plan_history
    ELSE [plan_history EXCEPT ![plan_ref] = p]

feedback_frame ==
    << pc, spec, results, current_progress, max_attempts, interaction_count,
       plan_vars, test_vars, exc, cycles, gate_calls, fault_at, store_call,
       writers, cli, hook, plan_ref, late_vars >>

\* the caller is done with its cycles
AfterLastCycle == pc = "returned" /\ cycles = MaxCycles

Approved(feedback) == "approved" \in DOMAIN feedback /\ feedback.approved

\* mutation: modifications add the keys the plan does not have
AcceptUserFeedback_AddsKeys ==
    /\ AfterLastCycle
    /\ feedback_calls < MaxFeedbackCalls
    /\ feedback_calls' = feedback_calls + 1
    /\ \E feedback \in FeedbackDicts :
         IF current_plan = NoPlan
         THEN /\ feedback_call' =
                     [feedback |-> feedback,
                      result |-> [error |-> <<"No", "current", "plan">>]]
              /\ UNCHANGED << file, current_plan, plan_history >>
         ELSE IF Approved(feedback)
         THEN /\ file' = add_note(file, <<"User", "approved", "refinement", "plan">>)
              /\ feedback_call' =
                     [feedback |-> feedback,
                      result |-> [status |-> "approved", plan |-> current_plan]]
              /\ UNCHANGED << current_plan, plan_history >>
         ELSE IF "modifications" \in DOMAIN feedback
         THEN LET modified ==
                      [k \in DOMAIN current_plan \cup DOMAIN feedback.modifications |->
                          IF k \in DOMAIN feedback.modifications
                          THEN feedback.modifications[k] ELSE current_plan[k]]
              IN /\ current_plan' = modified
                 /\ plan_history' = SharedHistory(modified)
                 /\ file' = add_note(file, <<"Applied", "user", "modifications",
                                             "to", "plan">>)
                 /\ feedback_call' =
                        [feedback |-> feedback,
                         result |-> [status |-> "modified", plan |-> modified]]
         ELSE /\ feedback_call' =
                     [feedback |-> feedback,
                      result |-> [status |-> "pending", plan |-> current_plan]]
              /\ UNCHANGED << file, current_plan, plan_history >>
    /\ UNCHANGED history_copy
    /\ UNCHANGED feedback_frame

\* accept_user_feedback; current_plan and the history entry appended by
\* create_plan are one dict, so a modification shows in both
AcceptUserFeedback ==
    /\ AfterLastCycle
    /\ feedback_calls < MaxFeedbackCalls
    /\ feedback_calls' = feedback_calls + 1
    /\ \E feedback \in FeedbackDicts :
         IF current_plan = NoPlan
         THEN /\ feedback_call' =
                     [feedback |-> feedback,
                      result |-> [error |-> <<"No", "current", "plan">>]]
              /\ UNCHANGED << file, current_plan, plan_history >>
         ELSE IF Approved(feedback)
         THEN /\ file' = add_note(file, <<"User", "approved", "refinement", "plan">>)
              /\ feedback_call' =
                     [feedback |-> feedback,
                      result |-> [status |-> "approved", plan |-> current_plan]]
              /\ UNCHANGED << current_plan, plan_history >>
         ELSE IF "modifications" \in DOMAIN feedback
         THEN LET modified ==
                      apply_modifications(current_plan, feedback.modifications)
              IN /\ current_plan' = modified
                 /\ plan_history' = SharedHistory(modified)
                 /\ file' = add_note(file, <<"Applied", "user", "modifications",
                                             "to", "plan">>)
                 /\ feedback_call' =
                        [feedback |-> feedback,
                         result |-> [status |-> "modified", plan |-> modified]]
         ELSE /\ feedback_call' =
                     [feedback |-> feedback,
                      result |-> [status |-> "pending", plan |-> current_plan]]
              /\ UNCHANGED << file, current_plan, plan_history >>
    /\ UNCHANGED history_copy
    /\ UNCHANGED feedback_frame

\* get_plan_history returns a new list holding the same plan dicts; the
\* caller appends an entry of its own to the list it got
GetPlanHistory ==
    /\ AfterLastCycle
    /\ history_copy = <<>>
    /\ history_copy' = Append(plan_history, [summary |-> <<"not", "a", "plan">>])
    /\ UNCHANGED << file, current_plan, plan_history, feedback_call,
                    feedback_calls >>
    /\ UNCHANGED feedback_frame

\* ------------------------------------------------------------------------
\* The markdown ProgressManager (progress.py): progress.md as a list of lines
\* ------------------------------------------------------------------------
\* a line is a pair: what it starts with ("# ", "## ", "- " or nothing) and
\* the rest of it
TitleLine == <<"# ", "Progress">>
BlankLine == <<"", "">>
HeadingLine(name) == <<"## ", name>>
TextLine(text) == <<"", text>>
ItemLine(text) == <<"- ", text>>

NoDetailsText == "No specific details"
NoNotesText == "No additional notes"

MdDefault == [step |-> "A: Preparation, step 1", details |-> <<>>, notes |-> <<>>]

\* the "- item" lines of a list, or the line written for an empty list
ListLines(items, placeholder) ==
    IF items # <<>> THEN [i \in DOMAIN items |-> ItemLine(items[i])]
    ELSE << ItemLine(placeholder) >>

\* ProgressManager._write_progress
md_write_progress(progress) ==
    [exists |-> TRUE,
     lines |-> << TitleLine, BlankLine, HeadingLine("Step"),
                  TextLine(progress.step), BlankLine, HeadingLine("Details") >>
               \o ListLines(progress.details, NoDetailsText)
               \o << BlankLine, HeadingLine("Notes") >>
               \o ListLines(progress.notes, NoNotesText)]

IsHeading(line) == line[1] = "## "

\* the lines of the section with this name, without its heading line, or
\* <<>> when the content has no such section
SectionLines(lines, name) ==
    LET at == {i \in DOMAIN lines : lines[i] = HeadingLine(name)}
    IN IF at = {} THEN <<>>
       ELSE LET first == CHOOSE i \in at : \A j \in at : j <= i
                later == {j \in DOMAIN lines : j > first /\ IsHeading(lines[j])}
                last == IF later = {} THEN Len(lines)
                        ELSE (CHOOSE j \in later : \A k \in later : j <= k) - 1
            IN SubSeq(lines, first + 1, last)

\* the list a Details or Notes section is parsed into: every non-empty
\* line, without its list marker
RECURSIVE ParseItems(_)
ParseItems(lines) ==
    IF lines = <<>> THEN <<>>
    ELSE IF Head(lines) = BlankLine THEN ParseItems(Tail(lines))
    ELSE << Head(lines)[2] >> \o ParseItems(Tail(lines))

\* section.strip().split('\n')[1] of the Step section, "" without such a line
ParseStep(lines) ==
    IF \A i \in DOMAIN lines : lines[i] = BlankLine THEN ""
    ELSE lines[1][2]

\* ProgressManager._parse_progress
md_parse_progress(lines) ==
    [step |-> ParseStep(SectionLines(lines, "Step")),
     details |-> ParseItems(SectionLines(lines, "Details")),
     notes |-> ParseItems(SectionLines(lines, "Notes"))]

\* ProgressManager.load_progress of progress.py
md_load_progress(f) == IF ~f.exists THEN MdDefault ELSE md_parse_progress(f.lines)

\* ProgressManager.update_progress of progress.py; upd holds the arguments
\* that are not None
md_update_progress(f, upd) ==
    LET loaded == md_load_progress(f)
    IN md_write_progress([k \in DOMAIN loaded |->
                             IF k \in DOMAIN upd THEN upd[k] ELSE loaded[k]])

MdItems == {"n1", "n2"}

\* lists a record can hold: none, one or two entries
MdLists == { <<>>, <<"n1">>, <<"n2", "n1">> }

MdRecords == [step : {"", "B: Refinement, step 1"}, details : MdLists, notes : MdLists]

MdUpdates ==
    {[k \in D |-> r[k]] : r \in [step : {"B: Refinement, step 2"},
                                 details : {<<>>, <<"n1">>},
                                 notes : {<<>>, <<"n2">>}],
                          D \in SUBSET {"step", "details", "notes"}}

md_frame ==
    << pc, file, spec, results, current_progress, agent_vars, plan_vars,
       test_vars, exc, cycles, gate_calls, fault_at, store_call, writers, cli,
       hook, plan_ref, feedback_vars, system >>

\* _write_progress(record) followed by load_progress()
MdWriteLoad ==
    /\ pc = "idle"
    /\ \E r \in MdRecords :
         /\ md' = md_write_progress(r)
         /\ md_call' = [op |-> "write_load", arg |-> r, raised |-> FALSE,
                        result |-> md_load_progress(md_write_progress(r))]
    /\ UNCHANGED md_frame

\* update_progress(step, details, notes) with any of the arguments left out
MdUpdate ==
    /\ pc = "idle"
    /\ \E upd \in MdUpdates :
         /\ md' = md_update_progress(md, upd)
         /\ md_call' = [op |-> "update", arg |-> upd, raised |-> FALSE,
                        result |-> <<>>]
    /\ UNCHANGED md_frame

\* add_note(note)
MdAddNote ==
    /\ pc = "idle"
    /\ Len(md_load_progress(md).notes) <= MaxItems
    /\ \E note \in MdItems :
         /\ md' = md_update_progress(md,
                     [notes |-> Append(md_load_progress(md).notes, note)])
         /\ md_call' = [op |-> "add_note", arg |-> note, raised |-> FALSE,
                        result |-> <<>>]
    /\ UNCHANGED md_frame

\* ------------------------------------------------------------------------
\* AgenticSystem (agentic_system.py)
\* ------------------------------------------------------------------------
StepIds == <<"DRAFT", "E2E_RED", "SCAFFOLD", "DONE", "RELEASE", "RETIRE">>

\* the ids of the steps of the playbooks a caller loads
Playbooks == {SubSeq(StepIds, 1, n) : n \in 1..MaxSteps}

Record(event) == [system EXCEPT !.history = Append(@, event)]

system_frame ==
    << pc, spec, results, current_progress, agent_vars, plan_vars, test_vars,
       exc, cycles, gate_calls, fault_at, store_call, writers, cli, hook,
       plan_ref, feedback_vars, md, md_call >>

\* AgenticSystem.load_playbook, called once on a new system
LoadPlaybook ==
    /\ pc = "idle"
    /\ system.playbook = <<>>
    /\ \E playbook \in Playbooks :
         system' = [Record("playbook_loaded") EXCEPT !.playbook = playbook]
    /\ UNCHANGED file
    /\ UNCHANGED system_frame

\* AgenticSystem.advance_step: the index is incremented before current_step
\* reads playbook['steps'][progress], which raises IndexError past the end
AdvanceStep ==
    /\ pc = "idle"
    /\ system.playbook # <<>>
    /\ system.progress <= MaxSteps
    /\ LET progress == system.progress + 1
       IN IF progress >= Len(system.playbook)
          THEN /\ system' = [system EXCEPT !.progress = progress, !.raised = TRUE]
               /\ UNCHANGED file
          ELSE LET current_step == system.playbook[progress + 1]
               IN /\ file' = update_progress(file,
                                [step |-> <<current_step>>,
                                 details |-> << <<"Working", "on", current_step>> >>,
                                 notes |-> << <<"Advanced", "to", current_step, "step">> >>])
                  /\ system' = [system EXCEPT
                                  !.progress = progress,
                                  !.raised = FALSE,
                                  !.history = @ \o <<"step_advanced", "progress_updated">>]
    /\ UNCHANGED system_frame

CycleEvent == "refinement_cycle_completed"

\* refinement_cycle_completed events in the history
Recorded == Cardinality({i \in DOMAIN system.history : system.history[i] = CycleEvent})

\* AgenticSystem.run_refinement_cycle enters the agent's run_refinement_cycle
SystemRunCycle == BeginCycle /\ Recorded = cycles

\* AgenticSystem.run_refinement_cycle after the agent returned: the event
\* is recorded, and a note is added if the result has a non-empty "error"
SystemRecord ==
    /\ pc = "returned"
    /\ Recorded < cycles
    /\ IF "error" \in DOMAIN results /\ results.error # <<>>
       THEN /\ file' = add_note(file, <<"Error", "in", "refinement", "cycle:">>
                                       \o results.error)
            /\ system' = [system EXCEPT
                            !.history = @ \o <<CycleEvent, "progress_note_added">>]
       ELSE /\ system' = Record(CycleEvent)
            /\ UNCHANGED file
    /\ UNCHANGED system_frame

\* ------------------------------------------------------------------------
\* Direct calls of single methods
\* ------------------------------------------------------------------------
DecisionWords ==
    {"Different", "approach", "simplify", "Continue", "anyway", "please"}

ContinueDifferentApproach == <<"continue", "with", "a", "different", "approach">>

\* answers a user can type at the implementation-failure request
DecisionTexts ==
    UNION {[1..n -> DecisionWords] : n \in 0..MaxTextLen}
        \cup {ContinueDifferentApproach}

DecisionFeedbacks == [text : DecisionTexts, continue : BOOLEAN]

\* ------------------------------------------------------------------------
\* ProgressManager called directly by one process
\* ------------------------------------------------------------------------
\* contents json.load or the back-fill of load_progress raises on: text that
\* is not JSON (an empty file included), JSON that is not an object
MalformedFiles ==
    { [exists |-> TRUE, members |-> << <<"not JSON">> >>],
      [exists |-> TRUE, members |-> << <<"JSON array">> >>] }

Fields == {"task", "step", "details", "notes"}

StoreItems == { <<"n1">>, <<"n2">> }

\* records handed to _write_progress
WriteRecords ==
    [task : {<<>>, <<"tasks/001">>}, step : {DefaultStep, StepLabel("3")},
     details : {<<>>}, notes : {<< <<"n2">>, <<"n2">> >>}]
        \cup [task : {<<"tasks/001">>}, step : {StepLabel("3")},
              details : {<< <<"n1">>, <<"n2">> >>}, notes : {<<>>}]

\* the keyword arguments of update_progress that are not None
Updates ==
    { [k \in D |-> r[k]] :
        r \in [task : {<<"tasks/001">>}, step : {StepLabel("3")},
               details : {<<>>}, notes : {<< <<"n1">> >>}],
        D \in SUBSET Fields }

\* mutation: a malformed file is read as the default record
StoreLoad_DefaultOnMalformed ==
    /\ pc = "idle"
    /\ store_call' =
          [op |-> "load", raised |-> FALSE,
           result |-> IF file \in MalformedFiles THEN load_progress(NoFile)
                      ELSE load_progress(file)]
    /\ UNCHANGED << pc, file, spec, results, current_progress, agent_vars,
                    plan_vars, test_vars, exc, cycles, gate_calls, fault_at,
                    writers, cli, extra_vars >>

StoreLoad ==
    /\ pc = "idle"
    /\ store_call' =
          IF file \in MalformedFiles
          THEN [op |-> "load", raised |-> TRUE]
          ELSE [op |-> "load", raised |-> FALSE,
                result |-> load_progress(file)]
    /\ UNCHANGED << pc, file, spec, results, current_progress, agent_vars,
                    plan_vars, test_vars, exc, cycles, gate_calls, fault_at,
                    writers, cli, extra_vars >>

StoreUpdate ==
    /\ pc = "idle"
    /\ \E upd \in Updates :
         IF file \in MalformedFiles
         THEN /\ store_call' = [op |-> "update", arg |-> upd,
                                raised |-> TRUE]
              /\ file' = file
         ELSE /\ store_call' = [op |-> "update", arg |-> upd,
                                raised |-> FALSE]
              /\ file' = update_progress(file, upd)
    /\ UNCHANGED << pc, spec, results, current_progress, agent_vars,
                    plan_vars, test_vars, exc, cycles, gate_calls, fault_at,
                    writers, cli, extra_vars >>

\* mutation: add_note puts the new note in front
StoreAddNote_Prepend ==
    /\ pc = "idle"
    /\ \E note \in StoreItems :
         IF file \in MalformedFiles
         THEN /\ store_call' = [op |-> "add_note", arg |-> note,
                                raised |-> TRUE]
              /\ file' = file
         ELSE /\ Len(load_progress(file).notes) < MaxItems
              /\ store_call' = [op |-> "add_note", arg |-> note,
                                raised |-> FALSE]
              /\ file' = update_progress(file,
                            [notes |-> <<note>> \o load_progress(file).notes])
    /\ UNCHANGED << pc, spec, results, current_progress, agent_vars,
                    plan_vars, test_vars, exc, cycles, gate_calls, fault_at,
                    writers, cli, extra_vars >>

StoreAddNote ==
    /\ pc = "idle"
    /\ \E note \in StoreItems :
         IF file \in MalformedFiles
         THEN /\ store_call' = [op |-> "add_note", arg |-> note,
                                raised |-> TRUE]
              /\ file' = file
         ELSE /\ Len(load_progress(file).notes) < MaxItems
              /\ store_call' = [op |-> "add_note", arg |-> note,
                                raised |-> FALSE]
              /\ file' = add_note(file, note)
    /\ UNCHANGED << pc, spec, results, current_progress, agent_vars,
                    plan_vars, test_vars, exc, cycles, gate_calls, fault_at,
                    writers, cli, extra_vars >>

StoreAddDetail ==
    /\ pc = "idle"
    /\ \E detail \in StoreItems :
         IF file \in MalformedFiles
         THEN /\ store_call' = [op |-> "add_detail", arg |-> detail, raised |-> TRUE]
              /\ file' = file
         ELSE /\ Len(load_progress(file).details) < MaxItems
              /\ store_call' = [op |-> "add_detail", arg |-> detail, raised |-> FALSE]
              /\ file' = add_detail(file, detail)
    /\ UNCHANGED << pc, spec, results, current_progress, agent_vars,
                    plan_vars, test_vars, exc, cycles, gate_calls, fault_at,
                    writers, cli, extra_vars >>

\* _write_progress(R) followed by load_progress()
StoreWriteLoad ==
    /\ pc = "idle"
    /\ \E r \in WriteRecords :
         /\ file' = write_progress(r)
         /\ store_call' = [op |-> "write_load", arg |-> r,
                           raised |-> FALSE,
                           result |-> load_progress(write_progress(r))]
    /\ UNCHANGED << pc, spec, results, current_progress, agent_vars,
                    plan_vars, test_vars, exc, cycles, gate_calls, fault_at,
                    writers, cli, extra_vars >>

\* load_progress() followed by _write_progress of the unchanged record
StoreLoadSave ==
    /\ pc = "idle"
    /\ IF file \in MalformedFiles
       THEN /\ store_call' = [op |-> "load_save", raised |-> TRUE]
            /\ file' = file
       ELSE /\ store_call' = [op |-> "load_save",
                              raised |-> FALSE]
            /\ file' = write_progress(load_progress(file))
    /\ UNCHANGED << pc, spec, results, current_progress, agent_vars,
                    plan_vars, test_vars, exc, cycles, gate_calls, fault_at,
                    writers, cli, extra_vars >>

\* another program leaves the progress file with malformed content
Corrupt ==
    /\ pc = "idle"
    /\ file \notin MalformedFiles
    /\ file' \in MalformedFiles
    /\ store_call' = NoCall
    /\ UNCHANGED << pc, spec, results, current_progress, agent_vars,
                    plan_vars, test_vars, exc, cycles, gate_calls, fault_at,
                    writers, cli, extra_vars >>

\* ------------------------------------------------------------------------
\* Two processes, each running add_note once on the same progress file
\* ------------------------------------------------------------------------
WriterNote(w) == IF w = "w1" THEN <<"n1">> ELSE <<"n2">>

Busy(w) == writers[w].pc \in {"update", "open", "dump"}

\* open(path, "w") has emptied the file and json.dump has not finished
TruncatedFile == [exists |-> TRUE, members |-> << <<"not JSON">> >>]

writer_frame ==
    << pc, spec, results, current_progress, agent_vars, plan_vars, test_vars,
       exc, cycles, gate_calls, fault_at, store_call, cli,
       extra_vars >>

\* mutation: add_note starts from an empty list instead of the loaded notes
WriterLoad_Fresh ==
    /\ pc = "idle"
    /\ \E w \in Writers :
         /\ writers[w].pc = "idle"
         /\ writers' = [writers EXCEPT ![w] =
                IF file \in MalformedFiles
                THEN [pc |-> "raised",
                      overlapped |-> \E v \in Writers \ {w} : Busy(v)]
                ELSE [pc |-> "update",
                      overlapped |-> \E v \in Writers \ {w} : Busy(v),
                      notes |-> << WriterNote(w) >>]]
    /\ UNCHANGED << file, writer_frame >>

\* add_note, line 82-83: load_progress() and append to the loaded list
WriterLoad ==
    /\ pc = "idle"
    /\ \E w \in Writers :
         /\ writers[w].pc = "idle"
         /\ writers' = [writers EXCEPT ![w] =
                IF file \in MalformedFiles
                THEN [pc |-> "raised",
                      overlapped |-> \E v \in Writers \ {w} : Busy(v)]
                ELSE [pc |-> "update",
                      overlapped |-> \E v \in Writers \ {w} : Busy(v),
                      notes |-> Append(load_progress(file).notes, WriterNote(w))]]
    /\ UNCHANGED << file, writer_frame >>

\* update_progress, line 39-49: load_progress() again and set the notes
WriterUpdate ==
    /\ pc = "idle"
    /\ \E w \in Writers :
         /\ writers[w].pc = "update"
         /\ writers' = [writers EXCEPT ![w] =
                IF file \in MalformedFiles
                THEN [pc |-> "raised", overlapped |-> writers[w].overlapped]
                ELSE [pc |-> "open", overlapped |-> writers[w].overlapped,
                      merged |-> [load_progress(file) EXCEPT
                                     !.notes = writers[w].notes]]]
    /\ UNCHANGED << file, writer_frame >>

\* _write_progress, line 57: open(path, "w") empties the file
WriterOpen ==
    /\ pc = "idle"
    /\ \E w \in Writers :
         /\ writers[w].pc = "open"
         /\ writers' = [writers EXCEPT ![w].pc = "dump"]
    /\ file' = TruncatedFile
    /\ UNCHANGED writer_frame

\* _write_progress, line 58: json.dump of the merged record
WriterDump ==
    /\ pc = "idle"
    /\ \E w \in Writers :
         /\ writers[w].pc = "dump"
         /\ file' = write_progress(writers[w].merged)
         /\ writers' = [writers EXCEPT ![w] =
                [pc |-> "done", overlapped |-> writers[w].overlapped]]
    /\ UNCHANGED writer_frame

\* PlannerAgent.create_plan called on the planner agent of an idle system
create_plan ==
    /\ pc = "idle"
    /\ \E r \in LLMResults :
         IF r.failed
         THEN /\ llm_outcome' = "error"
              /\ planner_ok' = FALSE
              /\ plan' = NoPlan
              /\ plan_history' = plan_history
         ELSE LET validated_plan ==
                      validate_and_enhance_plan(r.data, plan_history, cycles)
              IN /\ Len(plan_history) < MaxCalls
                 /\ llm_outcome' = "data"
                 /\ planner_ok' = TRUE
                 /\ plan' = validated_plan
                 /\ plan_history' = Append(plan_history, validated_plan)
    /\ UNCHANGED << pc, file, spec, results, current_progress, current_plan,
                    max_attempts, interaction_count, user_feedback, plan_review,
                    user_feedback_required, test_vars, exc, cycles, gate_calls,
                    fault_at >>
    /\ UNCHANGED direct_vars

PolicyWords == {"Breaking", "major", "Architecture", "minor", "change"}

PolicyTexts == UNION {[1..n -> PolicyWords] : n \in 0..MaxTextLen}

FileList(n) == [i \in 1..n |-> "f"]

\* plans a caller can hand to _requires_user_feedback; plan.get covers the
\* plans that lack a description or a file list
PolicyPlans ==
    [description : PolicyTexts, files_to_modify : {FileList(n) : n \in 0..MaxFiles}]
        \cup [description : PolicyTexts]
        \cup [files_to_modify : {FileList(n) : n \in 0..MaxFiles}]

\* Planner._requires_user_feedback called on the planner of an idle system
RequiresUserFeedback ==
    /\ pc = "idle"
    /\ \E p \in PolicyPlans :
         /\ plan' = p
         /\ user_feedback_required' = requires_user_feedback(p)
    /\ UNCHANGED << pc, file, spec, results, current_progress, agent_vars,
                    planner_ok, user_feedback, plan_review, llm_outcome,
                    test_vars, exc, cycles, gate_calls, fault_at >>
    /\ UNCHANGED direct_vars

\* CoordinatorAgent._handle_implementation_failure called on an idle agent
HandleImplementationFailure ==
    /\ pc = "idle"
    /\ interaction_count < MaxCalls
    /\ \E fb \in DecisionFeedbacks :
         /\ user_feedback' = fb
         /\ user_decision' = handle_implementation_failure(fb)
    /\ interaction_count' = interaction_count + 1
    /\ UNCHANGED << pc, file, spec, results, current_progress, current_plan,
                    max_attempts, plan_history, plan, planner_ok, plan_review,
                    llm_outcome, user_feedback_required, attempt, test_result,
                    test_check_result, runs, fix_count, outcomes, exc, cycles,
                    gate_calls, fault_at >>
    /\ UNCHANGED direct_vars

\* ------------------------------------------------------------------------
\* CLIInteractionHook.request_user_feedback, one line read per step
\* ------------------------------------------------------------------------
\* a run of white space in a line typed at a prompt
Blank == " "

\* str.strip: the text without its leading and trailing white space
Strip(text) ==
    LET inked == {i \in DOMAIN text : text[i] # Blank}
    IN IF inked = {}
       THEN <<>>
       ELSE SubSeq(text,
                   CHOOSE i \in inked : \A j \in inked : i <= j,
                   CHOOSE i \in inked : \A j \in inked : j <= i)

\* lines a user can type at the feedback prompt
TypedFeedback ==
    { <<>>, <<Blank>>, <<"quit">>, <<"Quit">>, <<Blank, "EXIT", Blank>>,
      <<"stop">>, <<"Stop", Blank, "now">>, <<"quit", Blank, "later">>,
      <<Blank, "Looks", Blank, "good">>, <<"y">> }

\* lines a user can type at the continuation prompt
TypedAnswers ==
    { <<>>, <<Blank>>, <<"y">>, <<Blank, "Y">>, <<"yes">>, <<"YES", Blank>>,
      <<"True">>, <<"1">>, <<"n">>, <<"no">>, <<"ok">>, <<"yes", Blank, "please">>,
      <<"0">> }

\* what input() raises when the user interrupts or the input ends
Interrupts == {"KeyboardInterrupt", "EOFError"}

StopRequested == <<"User", "requested", "to", "stop">>

UserInterrupted == <<"User", "interrupted">>

\* mutation: the typed feedback is compared as written, not in lower case
is_stop_request_CaseSensitive(feedback_text) ==
    feedback_text \in {<<"quit">>, <<"exit">>, <<"stop">>}

\* feedback_text.lower() in ['quit', 'exit', 'stop']
is_stop_request(feedback_text) ==
    Lower(feedback_text) \in {<<"quit">>, <<"exit">>, <<"stop">>}

\* continue_response in ['', 'y', 'yes', 'true', '1']
should_continue(continue_response) ==
    continue_response \in {<<>>, <<"y">>, <<"yes">>, <<"true">>, <<"1">>}

cli_frame ==
    << pc, file, spec, results, current_progress, agent_vars, plan_vars,
       test_vars, exc, cycles, gate_calls, fault_at, store_call, writers,
       extra_vars >>

\* the call prints the context and reaches the feedback prompt
CLIBegin ==
    /\ pc = "idle"
    /\ cli.pc \in {"idle", "returned"}
    /\ cli' = [IdleCLI EXCEPT !.pc = "feedback_prompt"]
    /\ UNCHANGED cli_frame

\* input("Your feedback: ") returns a line
CLIFeedback ==
    /\ cli.pc = "feedback_prompt"
    /\ \E line \in TypedFeedback :
         LET feedback_text == Strip(line)
         IN cli' = IF is_stop_request(feedback_text)
                   THEN [cli EXCEPT !.pc = "returned", !.typed = line,
                                    !.prompts = 1,
                                    !.result = [text |-> StopRequested,
                                                continue |-> FALSE]]
                   ELSE [cli EXCEPT !.pc = "continue_prompt", !.typed = line,
                                    !.prompts = 1]
    /\ UNCHANGED cli_frame

\* input("Your feedback: ") raises, the except clause returns
CLIFeedbackInterrupt ==
    /\ cli.pc = "feedback_prompt"
    /\ \E i \in Interrupts :
         cli' = [cli EXCEPT !.pc = "returned", !.prompts = 1, !.interrupt = i,
                            !.result = [text |-> UserInterrupted,
                                        continue |-> FALSE]]
    /\ UNCHANGED cli_frame

\* input("Continue with refinement? ...") returns a line
CLIContinue ==
    /\ cli.pc = "continue_prompt"
    /\ \E line \in TypedAnswers :
         LET continue_response == Lower(Strip(line))
         IN cli' = [cli EXCEPT !.pc = "returned", !.answer = line,
                               !.prompts = 2,
                               !.result = [text |-> Strip(cli.typed),
                                           continue |-> should_continue(continue_response)]]
    /\ UNCHANGED cli_frame

\* mutation: only the feedback prompt is inside the try block
CLIContinueInterrupt_Propagates ==
    /\ cli.pc = "continue_prompt"
    /\ \E i \in Interrupts :
         cli' = [cli EXCEPT !.pc = "returned", !.prompts = 2, !.interrupt = i,
                            !.raised = TRUE]
    /\ UNCHANGED cli_frame

\* input("Continue with refinement? ...") raises, the except clause returns
CLIContinueInterrupt ==
    /\ cli.pc = "continue_prompt"
    /\ \E i \in Interrupts :
         cli' = [cli EXCEPT !.pc = "returned", !.prompts = 2, !.interrupt = i,
                            !.result = [text |-> UserInterrupted,
                                        continue |-> FALSE]]
    /\ UNCHANGED cli_frame

\* ------------------------------------------------------------------------
\* Specifications
\* ------------------------------------------------------------------------
Next ==
    \/ BeginCycle \/ LoadProgress
    \/ CreatePlan \/ PlanAnalysisNote \/ PlanSummaryNote \/ PlanGate
    \/ PlanStopUpdate \/ PlanFeedbackNote \/ PlanApprovedNote
    \/ PlanApprovedUpdate \/ PlanReturn
    \/ AdjustTest \/ Implement
    \/ RunTests \/ PassNote \/ FixNote \/ AdjustNote \/ FailedNote
    \/ FailureGate \/ ContinueNote \/ GuidanceNote \/ TestCheckReturn
    \/ AbortUpdate
    \/ SpecReview \/ Commit \/ ShouldContinue \/ FinalUpdate
    \/ Except

\* every collaborator keeps its contract
Spec == Init /\ [][Next]_vars

NextFault == Next \/ LoadFault \/ StoreFault \/ CommitFault \/ HookFault

\* the store and the hook may raise
SpecFault == Init /\ [][NextFault]_vars

NextPlanner == create_plan

\* successive create_plan calls on one PlannerAgent
SpecPlanner == Init /\ [][NextPlanner]_vars

NextPolicy == Next \/ RequiresUserFeedback

\* cycles, and the feedback policy asked about arbitrary small plans
SpecPolicy == Init /\ [][NextPolicy]_vars

NextDecision == HandleImplementationFailure

NextWriters == WriterLoad \/ WriterUpdate \/ WriterOpen \/ WriterDump

\* two processes sharing one progress file, their file accesses interleaved
SpecWriters == Init /\ [][NextWriters]_vars

NextStore ==
    \/ StoreLoad \/ StoreUpdate \/ StoreAddNote \/ StoreAddDetail
    \/ StoreWriteLoad \/ StoreLoadSave \/ Corrupt

\* one process calling the ProgressManager; the file can get corrupted
SpecStore == Init /\ [][NextStore]_vars

\* the implementation-failure request answered with arbitrary short texts
SpecDecision == Init /\ [][NextDecision]_vars

\* the steps a cycle can take when every gate call raises
NextWebhook ==
    \/ BeginCycle \/ LoadProgress
    \/ CreatePlan \/ PlanAnalysisNote \/ PlanSummaryNote \/ PlanReturn
    \/ AdjustTest \/ Implement
    \/ RunTests \/ PassNote \/ FixNote \/ AdjustNote \/ FailedNote
    \/ TestCheckReturn
    \/ SpecReview \/ Commit \/ ShouldContinue \/ FinalUpdate
    \/ WebhookGate \/ Except

\* cycles of a coordinator whose interaction hook is the webhook placeholder
SpecWebhook == Init /\ [][NextWebhook]_vars

NextMock ==
    \/ NewMockHook
    \/ BeginCycle \/ LoadProgress
    \/ CreatePlan \/ PlanAnalysisNote \/ PlanSummaryNote \/ MockPlanGate
    \/ PlanStopUpdate \/ PlanFeedbackNote \/ PlanApprovedNote
    \/ PlanApprovedUpdate \/ PlanReturn
    \/ AdjustTest \/ Implement
    \/ RunTests \/ PassNote \/ FixNote \/ AdjustNote \/ FailedNote
    \/ MockFailureGate \/ ContinueNote \/ GuidanceNote \/ TestCheckReturn
    \/ AbortUpdate
    \/ SpecReview \/ Commit \/ ShouldContinue \/ FinalUpdate
    \/ Except

\* cycles of a coordinator whose interaction hook is a configured mock
SpecMock == Init /\ [][NextMock]_vars

NextFeedback == Next \/ AcceptUserFeedback \/ GetPlanHistory

\* cycles, with accept_user_feedback and get_plan_history called after them
SpecFeedback == Init /\ [][NextFeedback]_vars

NextMarkdown == MdWriteLoad \/ MdUpdate \/ MdAddNote

\* one process calling the markdown ProgressManager
SpecMarkdown == Init /\ [][NextMarkdown]_vars

NextPlaybook == LoadPlaybook \/ AdvanceStep

\* a caller loading a playbook and advancing through it
SpecPlaybook == Init /\ [][NextPlaybook]_vars

NextSystem ==
    \/ SystemRunCycle \/ LoadProgress
    \/ CreatePlan \/ PlanAnalysisNote \/ PlanSummaryNote \/ PlanGate
    \/ PlanStopUpdate \/ PlanFeedbackNote \/ PlanApprovedNote
    \/ PlanApprovedUpdate \/ PlanReturn
    \/ AdjustTest \/ Implement
    \/ RunTests \/ PassNote \/ FixNote \/ AdjustNote \/ FailedNote
    \/ FailureGate \/ ContinueNote \/ GuidanceNote \/ TestCheckReturn
    \/ AbortUpdate
    \/ SpecReview \/ Commit \/ ShouldContinue \/ FinalUpdate
    \/ Except
    \/ LoadFault \/ StoreFault \/ CommitFault \/ HookFault
    \/ SystemRecord

\* cycles run through AgenticSystem.run_refinement_cycle; the store and the
\* hook may raise
SpecSystem == Init /\ [][NextSystem]_vars

NextCLI ==
    \/ CLIBegin \/ CLIFeedback \/ CLIFeedbackInterrupt
    \/ CLIContinue \/ CLIContinueInterrupt

\* successive calls of the command-line hook, the user typing or interrupting
SpecCLI == Init /\ [][NextCLI]_vars

\* ------------------------------------------------------------------------
\* Properties
\* ------------------------------------------------------------------------
StageOrder ==
    <<"plan", "adjust_test", "implement", "test_check", "spec_review", "commit">>

IsPrefix(s, t) == Len(s) <= Len(t) /\ s = SubSeq(t, 1, Len(s))

InSeq(x, s) == \E i \in DOMAIN s : s[i] = x

Returned == pc = "returned"

\* the record a load of the progress file returns now
Persisted == load_progress(file)

\* C1: in every run, steps_completed is a prefix of plan, adjust_test,
\* implement, test_check, spec_review, commit: no stage is skipped, repeated
\* or recorded out of order (at return and at every moment before it).
C1_StepsArePrefix == IsPrefix(results.steps_completed, StageOrder)

C1_Witness ==
    /\ Returned
    /\ results.steps_completed = <<"plan", "adjust_test", "implement", "test_check">>

\* C2: when the hook answers continue=false at plan review, the returned
\* result has cycle_completed=false and errors[0] contains "User chose to stop".
C2_UserStopReported ==
    (Returned /\ plan_review = "stop") =>
        /\ ~results.cycle_completed
        /\ Len(results.errors) >= 1
        /\ Contains(results.errors[1], <<"User", "chose", "to", "stop">>)

C2_Witness ==
    /\ Returned
    /\ plan_review = "stop"
    /\ gate_calls.plan = 1

\* C3 as stated: when the hook answers continue=false at plan review,
\* steps_completed contains "plan" and none of the later stages.
C3_PlanRecordedOnStop ==
    (Returned /\ plan_review = "stop") =>
        /\ InSeq("plan", results.steps_completed)
        /\ \A i \in 2..Len(StageOrder) :
               ~InSeq(StageOrder[i], results.steps_completed)

\* C3 amended: when the hook answers continue=false at plan review,
\* steps_completed is empty at return: the abort leaves the plan stage
\* before "plan" is recorded, and no later stage is recorded either.
C3_NothingRecordedOnStop ==
    (Returned /\ plan_review = "stop") => results.steps_completed = <<>>

C3_Witness ==
    /\ Returned
    /\ plan_review = "stop"
    /\ results.steps_completed = <<>>
    /\ results.errors # <<>>

HasCycleFailedEntry ==
    \E i \in DOMAIN results.errors :
        IsPrefix(CycleFailedPrefix, results.errors[i])

\* C4: run_refinement_cycle never raises past its boundary: for a failure of
\* a collaborator at any point of the call (progress load at cycle start,
\* hook, note persistence, commit) it returns a result with
\* cycle_completed=false and an errors entry "Refinement cycle failed: ...".
C4_NeverRaises ==
    /\ pc # "raised"
    /\ (Returned /\ fault_at # "none") =>
           (~results.cycle_completed /\ HasCycleFailedEntry)

\* C5 as stated: a Progress Store failure during a stage of a cycle is
\* propagated to the caller as an exception and is never swallowed into the
\* errors list of a returned result.
C5_StoreFailurePropagates ==
    fault_at \in (StoreCallSites \cup {"commit"}) => ~Returned

\* C5 amended: a Progress Store failure during a stage of a cycle is never
\* propagated to the caller: a result is returned, in which a failure inside
\* the commit stage shows as committed=false and a failure in any other stage
\* as the last errors entry "Refinement cycle failed: {message}"; only a
\* failure of the progress load at cycle start is propagated.
C5_StoreFailureSwallowed ==
    /\ pc = "raised" => fault_at = "load"
    /\ (Returned /\ fault_at \in StoreCallSites) =>
           /\ exc \in StoreErrorMessages
           /\ results.errors # <<>>
           /\ results.errors[Len(results.errors)] = CycleFailedPrefix \o exc
    /\ (Returned /\ fault_at = "commit") =>
           /\ ~results.committed
           /\ ~HasCycleFailedEntry

C5_Witness ==
    /\ Returned
    /\ fault_at = "adjust_test"
    /\ results.errors = << CycleFailedPrefix \o WriteErrorMessage >>

\* positions of a cycle after _check_and_fix_tests returned
AfterTestCheck ==
    { "test_check_return", "abort_update", "spec_review", "commit",
      "should_continue", "final_update" }

InTestCheck ==
    pc \in { "run_tests", "pass_note", "fix_note", "adjust_note", "failed_note",
             "failure_gate", "continue_note", "guidance_note" }

StageStatuses == {"passed", "test_adjusted", "aborted", "continued_with_failures"}

TestCheckEnded == test_check_result.status # "none"

AllFailed == \A i \in DOMAIN outcomes : ~outcomes[i]

\* the scheduler of the one sequential caller: a step that can be taken is taken
SpecLive == Init /\ [][Next]_vars /\ WF_vars(Next)

\* C6: the test-check stage always terminates: verification is run at most
\* max_attempts times in one cycle, and the stage, once entered, ends with
\* exactly one of the statuses passed, test_adjusted, aborted,
\* continued_with_failures.
C6_BoundedRetry ==
    /\ [](runs <= max_attempts)
    /\ [](pc \in AfterTestCheck => test_check_result.status \in StageStatuses)
    /\ [](InTestCheck => ~TestCheckEnded)
    /\ (InTestCheck ~> pc = "test_check_return")

C6_Witness ==
    /\ pc = "test_check_return"
    /\ runs = max_attempts
    /\ max_attempts > 1
    /\ test_check_result.status = "continued_with_failures"

\* C7: if verification fails on attempts 1..k-1 and passes on attempt k, the
\* stage returns passed with attempts = k, the corrective action has been
\* applied exactly k-1 times, the hook is not invoked by the stage, and the
\* cycle goes on to spec_review.
C7_PassOnAttemptK ==
    LET k == Len(outcomes)
    IN (k >= 1 /\ outcomes[k] /\ (\A i \in 1..(k - 1) : ~outcomes[i])
          /\ (pc \in AfterTestCheck \/ Returned)) =>
           /\ test_check_result.status = "passed"
           /\ test_check_result.attempts = k
           /\ fix_count = k - 1
           /\ gate_calls.failure = 0
           /\ pc # "abort_update"
           /\ Returned => InSeq("spec_review", results.steps_completed)

C7_Witness ==
    /\ Returned
    /\ outcomes = <<FALSE, FALSE, TRUE>>
    /\ test_check_result = [status |-> "passed", attempts |-> 3]

StopRelated(text) == Contains(Lower(text), <<"stop">>)

\* all attempts failed, the last with at most 2 errors, and the hook answered
\* continue=false to the implementation-failure request
StoppedAfterFailures ==
    /\ Returned
    /\ runs = max_attempts
    /\ AllFailed
    /\ Len(test_result.errors) <= 2
    /\ gate_calls.failure = 1
    /\ ~user_feedback.continue

C9_AbortPersisted ==
    (Returned /\ test_check_result.status = "aborted") =>
        /\ Persisted.step = StepLabel("4")
        /\ Persisted.details = << <<"Implementation", "aborted">>,
                                  <<"Plan", "needs", "to", "change">> >>
        /\ ~InSeq("spec_review", results.steps_completed)
        /\ ~InSeq("commit", results.steps_completed)

C9_Witness ==
    /\ Returned
    /\ test_check_result.status = "aborted"
    /\ "user_guidance" \in DOMAIN test_check_result
    /\ Persisted.step = StepLabel("4")

\* C10: when the hook answers continue=false at plan review, the "stopped"
\* update (step "B: Refinement, step 1", details ["Plan created but user
\* chose to stop"]) is in the store when the abort is raised, and stays the
\* persisted state until and when run_refinement_cycle returns.
C10_StoppedPersisted ==
    (plan_review = "stop" /\ pc \in {"except", "returned"}) =>
        /\ Persisted.step = StepLabel("1")
        /\ Persisted.details =
               << <<"Plan", "created", "but", "user", "chose", "to", "stop">> >>
        /\ Persisted.notes = << <<"User", "feedback:">> \o user_feedback.text >>

C10_Witness ==
    /\ pc = "except"
    /\ exc = UserStopMessage
    /\ Persisted.step = StepLabel("1")

\* C11: whenever run_refinement_cycle returns cycle_completed=true, the final
\* progress update has been persisted (the store holds step "B: Refinement,
\* step 7" and details ["Refinement cycle completed successfully"]) and
\* steps_completed holds all six recorded stages.
C11_FinalUpdatePersisted ==
    (Returned /\ results.cycle_completed) =>
        /\ Persisted.step = StepLabel("7")
        /\ Persisted.details =
               << <<"Refinement", "cycle", "completed", "successfully">> >>
        /\ results.steps_completed = StageOrder

\* C12: a failure inside the commit stage is caught and stored in the errors
\* list of the cycle: the result has committed=false and an errors entry for
\* the commit failure, and steps_completed holds all six stages.
C12_CommitFailureRecorded ==
    (fault_at = "commit" /\ pc \in {"should_continue", "final_update", "returned"}) =>
        /\ ~results.committed
        /\ results.errors # <<>>
        /\ results.steps_completed = StageOrder

\* every verification run of the cycle failed and the stage has returned
LastAttemptFailed ==
    /\ runs = max_attempts
    /\ AllFailed
    /\ pc \in AfterTestCheck \/ Returned

\* C13: on a failure at the last attempt, if more than 2 errors are reported
\* the stage returns test_adjusted with attempts = max_attempts, the hook is
\* not invoked and the cycle goes on to spec_review; if at most 2 errors are
\* reported the hook is invoked exactly once, with the implementation-failure
\* request.
C13_AdjustOrAsk ==
    LastAttemptFailed =>
        IF Len(test_result.errors) > 2
        THEN /\ test_check_result.status = "test_adjusted"
             /\ test_check_result.attempts = max_attempts
             /\ gate_calls.failure = 0
             /\ user_decision = NoDecision
             /\ pc # "abort_update"
             /\ Returned => InSeq("spec_review", results.steps_completed)
        ELSE /\ gate_calls.failure = 1
             /\ user_decision # NoDecision
             /\ test_check_result.status \in {"aborted", "continued_with_failures"}

C13_Witness ==
    /\ Returned
    /\ LastAttemptFailed
    /\ max_attempts = 3
    /\ Len(test_result.errors) = 3
    /\ test_check_result = [status |-> "test_adjusted", attempts |-> 3]
    /\ InSeq("spec_review", results.steps_completed)

Mentions(text, words) == \E w \in words : Contains(Lower(text), <<w>>)

\* the keyword groups of the failure-feedback text, in priority order
PriorityAction(text) ==
    IF Mentions(text, {"different", "approach"}) THEN "retry_different"
    ELSE IF Mentions(text, {"simplify"}) THEN "simplify"
    ELSE IF Mentions(text, {"continue", "anyway"}) THEN "continue"
    ELSE "retry"

Answered(text) ==
    /\ user_decision # NoDecision
    /\ user_feedback = [text |-> text, continue |-> TRUE]

\* C14: with continue=true the failure-feedback text is classified by the
\* first matching keyword group, case-insensitively, in the order
\* different/approach (retry-different), simplify, continue/anyway
\* (continue-with-failures), else generic retry; a text matching several
\* groups takes the earliest, e.g. "continue with a different approach" is
\* retry-different.
C14_FirstMatchingKeyword ==
    /\ (user_decision # NoDecision /\ user_feedback.continue) =>
           /\ user_decision.action = PriorityAction(user_feedback.text)
           /\ user_decision.guidance = user_feedback.text
    /\ Answered(ContinueDifferentApproach) =>
           user_decision.action = "retry_different"
    /\ Answered(<<"Continue", "Different">>) =>
           user_decision.action = "retry_different"
    /\ Answered(<<"anyway", "simplify">>) => user_decision.action = "simplify"
    /\ Answered(<<"Continue", "please">>) => user_decision.action = "continue"
    /\ Answered(<<"please">>) => user_decision.action = "retry"
    /\ Answered(<<>>) => user_decision.action = "retry"

C14_Witness ==
    /\ Answered(ContinueDifferentApproach)
    /\ user_decision.action = "retry_different"

\* a is b with some elements left out: same elements, same relative order
RECURSIVE IsSubsequence(_, _)
IsSubsequence(a, b) ==
    IF a = <<>> THEN TRUE
    ELSE IF b = <<>> THEN FALSE
    ELSE IF Head(a) = Head(b) THEN IsSubsequence(Tail(a), Tail(b))
    ELSE IsSubsequence(a, Tail(b))

InCycle == pc \notin {"idle", "returned", "raised"}

\* C15: the persisted notes are an append-only log: no store write made
\* during a cycle (the plan-approval update and the final stage-7 update
\* included) drops or reorders a note persisted before it, so every note
\* persisted at some point of the cycle is still there, in the same relative
\* order, when the cycle returns.
C15_NotesAppendOnly ==
    [][InCycle => IsSubsequence(load_progress(file).notes,
                                load_progress(file').notes)]_vars

\* the plan stage of the running cycle has returned to run_refinement_cycle
PlanStageReturned ==
    pc \in {"adjust_test", "implement"} \cup AfterTestCheck \/ InTestCheck

\* C16: when the plan requires feedback and the hook answers continue=true
\* with a non-empty text, the guidance is recorded as a note: when the plan
\* stage finishes the persisted notes contain "User feedback: {text}", and the
\* plan handed to the later stages is the plan that was reviewed, unmodified.
C16_FeedbackNoteKept ==
    (pc = "adjust_test" /\ plan_review = "continue" /\ user_feedback.text # <<>>) =>
        /\ InSeq(<<"User", "feedback:">> \o user_feedback.text, Persisted.notes)
        /\ current_plan = plan

\* C17: when the generative call of create_plan fails, create_plan falls back
\* to a fixed default plan and returns success=true with a validated plan
\* that has been appended to the history.
C17_FallbackOnFailure ==
    llm_outcome = "error" =>
        /\ planner_ok
        /\ plan # NoPlan
        /\ plan_history # <<>>
        /\ plan_history[Len(plan_history)] = plan

AllPlanFields ==
    { "summary", "description", "priority", "goals", "files_to_modify",
      "tests_to_add", "success_criteria", "plan_id", "created_at" }

\* C18: every plan the plan stage returns to the orchestrator, whether the
\* generation succeeded or the fallback was used, has all required fields
\* (summary, description, priority, goals, files_to_modify, tests_to_add,
\* success_criteria, plan_id, created_at) and a non-empty goals list.
C18_PlanComplete ==
    (PlanStageReturned /\ current_plan # NoPlan) =>
        /\ AllPlanFields \subseteq DOMAIN current_plan
        /\ current_plan.goals # <<>>

\* C19: over any sequence of create_plan calls on one PlannerAgent, failing
\* calls included, the i-th history entry carries plan number i (1, 2, 3, ...
\* without gaps or repeats), and the history only grows by appending one
\* entry per successful call.
C19_PlanIdsSequential ==
    /\ [](\A i \in DOMAIN plan_history : plan_history[i].plan_id = PlanId(i))
    /\ [][\/ plan_history' = plan_history
          \/ /\ llm_outcome' = "data"
             /\ Len(plan_history') = Len(plan_history) + 1
             /\ SubSeq(plan_history', 1, Len(plan_history)) = plan_history]_vars
    /\ [][llm_outcome' = "error" => plan_history' = plan_history]_vars

C19_Witness ==
    /\ Len(plan_history) = 2
    /\ llm_outcome = "error"
    /\ plan_history[2].plan_id = PlanId(2)

TriggerWords == {"breaking", "major", "architecture"}

\* the policy as stated: more than 3 files, or a trigger keyword
Complex(p) ==
    \/ Len(PlanGet(p, "files_to_modify", <<>>)) > 3
    \/ Mentions(PlanGet(p, "description", <<>>), TriggerWords)

\* _requires_user_feedback has been evaluated for `plan`
PolicyDecided ==
    /\ plan # NoPlan
    /\ pc \notin {"load", "create_plan", "plan_analysis_note", "plan_summary_note"}

\* the running or last cycle is past the point of the plan review
PlanGatePassed ==
    /\ cycles > 0
    /\ \/ pc \in { "plan_stop_update", "plan_feedback_note", "plan_approved_note",
                   "plan_approved_update", "plan_return", "except", "returned" }
       \/ PlanStageReturned

\* C20: requires_user_feedback(plan) is true exactly when files_to_modify has
\* more than 3 entries or the description contains "breaking", "major" or
\* "architecture" in any letter case (4 files without keyword: true, 3 files
\* without keyword: false), and the hook is invoked during the plan stage
\* exactly when it is true.
C20_FeedbackPolicy ==
    /\ PolicyDecided => (user_feedback_required <=> Complex(plan))
    /\ (PolicyDecided /\ plan = [description |-> <<"minor", "change">>,
                                 files_to_modify |-> FileList(4)]) =>
           user_feedback_required
    /\ (PolicyDecided /\ plan = [description |-> <<"minor", "change">>,
                                 files_to_modify |-> FileList(3)]) =>
           ~user_feedback_required
    /\ (PolicyDecided /\ plan = [description |-> <<"Breaking", "change">>]) =>
           user_feedback_required
    /\ PlanGatePassed =>
           gate_calls.plan = IF Complex(plan) THEN 1 ELSE 0

C20_Witness ==
    /\ pc = "adjust_test"
    /\ Len(plan.files_to_modify) = 4
    /\ ~Mentions(plan.description, TriggerWords)
    /\ gate_calls.plan = 1

\* the call made by this step is op and it returned normally
Called(op) == store_call'.op = op /\ ~store_call'.raised

\* the record persisted before and after this step
Before == load_progress(file)
After == load_progress(file')

\* C21: update(step=X) with no other argument changes only step: task,
\* details and notes read back after it equal the values persisted before it;
\* likewise every update leaves the fields it is not given unchanged and
\* sets the fields it is given.
C21_PartialUpdate ==
    [][Called("update") =>
          \A k \in Fields :
              After[k] = IF k \in DOMAIN store_call'.arg
                         THEN store_call'.arg[k] ELSE Before[k]]_vars

C21_Witness ==
    /\ store_call.op = "update"
    /\ ~store_call.raised
    /\ DOMAIN store_call.arg = {"step"}
    /\ Persisted.step = StepLabel("3")
    /\ Persisted.task # <<>>
    /\ Len(Persisted.details) = 2
    /\ Len(Persisted.notes) = 2

\* C22: for any valid Progress Record R, writing R and then loading returns
\* a record equal to R, and a load followed by a save of the unchanged record
\* leaves the persisted record unchanged.
C22_RoundTrip ==
    /\ [](store_call.op = "write_load" => store_call.result = store_call.arg)
    /\ [][Called("load_save") => After = Before]_vars

C22_Witness ==
    /\ store_call.op = "write_load"
    /\ store_call.arg.task = <<"tasks/001">>
    /\ store_call.arg.details = << <<"n1">>, <<"n2">> >>
    /\ Persisted = store_call.arg

\* C23: for a single writer, add_note(t) on a store whose notes are N leaves
\* the notes equal to N followed by t (order preserved, duplicates kept) and
\* task, step and details unchanged; add_detail(t) does the same for details
\* and leaves task, step and notes unchanged.
C23_AppendOnly ==
    /\ [][Called("add_note") =>
             /\ After.notes = Append(Before.notes, store_call'.arg)
             /\ \A k \in Fields \ {"notes"} : After[k] = Before[k]]_vars
    /\ [][Called("add_detail") =>
             /\ After.details = Append(Before.details, store_call'.arg)
             /\ \A k \in Fields \ {"details"} : After[k] = Before[k]]_vars

C23_Witness ==
    /\ store_call.op = "add_note"
    /\ ~store_call.raised
    /\ Persisted.notes = << <<"n2">>, <<"n2">> >>
    /\ Persisted.details = << <<"n1">>, <<"n2">> >>

ReadingCalls == {"load", "update", "add_note", "add_detail"}

\* C24: load on a malformed file fails instead of returning a default record;
\* update, add_note and add_detail on a malformed file fail before writing,
\* so the malformed content is never overwritten or discarded; load without
\* a file returns the default record (step "A: Preparation, step 1", empty
\* task, empty lists) and does not create the file.
C24_MalformedKept ==
    /\ [][(file \in MalformedFiles /\ store_call'.op \in ReadingCalls) =>
             (store_call'.raised /\ file' = file)]_vars
    /\ []((file \in MalformedFiles /\ store_call.op \in ReadingCalls) =>
             store_call.raised)
    /\ [][(~file.exists /\ store_call'.op = "load") =>
             /\ ~store_call'.raised
             /\ store_call'.result =
                    [task |-> <<>>, step |-> DefaultStep, details |-> <<>>,
                     notes |-> <<>>]
             /\ ~file'.exists]_vars

C24_Witness ==
    /\ file \in MalformedFiles
    /\ store_call.op = "add_note"
    /\ store_call.raised

AllDone == \A w \in Writers : writers[w].pc = "done"

OneAfterTheOther == \A w \in Writers : ~writers[w].overlapped

NotePresent(w) == InSeq(WriterNote(w), Persisted.notes)

\* C25: store updates are not atomic: when two writers run add_note on the
\* same store one after the other, both notes are persisted, while with
\* interleaved load and write steps a final state is reachable in which one
\* writer's note is absent from the persisted notes (that final state is
\* C25_Witness); a writer that finished always leaves at least one note.
C25_SequentialKeepsBoth ==
    /\ (AllDone /\ OneAfterTheOther) => \A w \in Writers : NotePresent(w)
    /\ AllDone => \E w \in Writers : NotePresent(w)

C25_Witness ==
    /\ AllDone
    /\ ~OneAfterTheOther
    /\ \E w \in Writers : ~NotePresent(w)

\* "progress integration" occurs in the text, in any letter case
MentionsProgressIntegration(text) ==
    \E i \in 1..(Len(text) - 1) :
        /\ LowerWord(text[i]) = "progress"
        /\ LowerWord(text[i + 1]) = "integration"

\* C26: the spec-review stage yields spec_changed = true exactly when the
\* description of the current plan contains "progress integration" in any
\* letter case, and the result's spec_changed equals that value whenever
\* spec_review is in steps_completed.
C26_SpecChanged ==
    /\ InSeq("spec_review", results.steps_completed) =>
           (results.spec_changed <=> MentionsProgressIntegration(current_plan.description))
    /\ results.spec_changed => InSeq("spec_review", results.steps_completed)

C26_Witness ==
    /\ Returned
    /\ results.spec_changed
    /\ current_plan.description = <<"Add", "Progress", "Integration">>

CLIReturned == cli.pc = "returned"

\* C27: in the command-line hook, a KeyboardInterrupt or an end of input at
\* the feedback prompt or at the continuation prompt is caught:
\* request_user_feedback returns text "User interrupted" with continue false,
\* and no call of the hook ever raises to its caller.
C27_InterruptCaught ==
    /\ ~cli.raised
    /\ cli.interrupt # "none" =>
           /\ CLIReturned
           /\ cli.result = [text |-> <<"User", "interrupted">>, continue |-> FALSE]

C27_Witness ==
    /\ CLIReturned
    /\ cli.interrupt = "EOFError"
    /\ cli.prompts = 2
    /\ cli.result.text = <<"User", "interrupted">>

\* the line typed at the feedback prompt is quit, exit or stop once trimmed
\* and put in lower case
TypedStopWord ==
    \E w \in {"quit", "exit", "stop"} : Lower(Strip(cli.typed)) = <<w>>

\* the line typed at the continuation prompt, trimmed and in lower case, is
\* empty, y, yes, true or 1
TypedYes ==
    \/ Strip(cli.answer) = <<>>
    \/ \E w \in {"y", "yes", "true", "1"} : Lower(Strip(cli.answer)) = <<w>>

\* C28: in the command-line hook, a feedback text that is quit, exit or stop
\* (trimmed, in any letter case) returns continue false with the text "User
\* requested to stop" and the continuation prompt is not issued; for any
\* other feedback text the continuation prompt is issued, the trimmed text
\* is returned, and continue is true exactly when the answer (trimmed, in
\* lower case) is empty, y, yes, true or 1.
C28_StopWordsAndDefaultYes ==
    (CLIReturned /\ cli.interrupt = "none") =>
        IF TypedStopWord
        THEN /\ cli.prompts = 1
             /\ cli.result = [text |-> <<"User", "requested", "to", "stop">>,
                              continue |-> FALSE]
        ELSE /\ cli.prompts = 2
             /\ cli.result.text = Strip(cli.typed)
             /\ cli.result.continue <=> TypedYes

C28_Witness ==
    /\ CLIReturned
    /\ cli.typed = <<Blank, "EXIT", Blank>>
    /\ cli.prompts = 1
    /\ ~cli.result.continue

AtGate == pc \in {"plan_gate", "failure_gate"}

\* C29: invoking the webhook gate always fails with the not-implemented
\* error and never hands a {text, continue} pair to its caller; a cycle run
\* with this gate whose plan requires feedback ends with cycle_completed
\* false, an errors entry for the failure, and no stage executed after the
\* plan stage (no stage is recorded at all, nothing is committed).
C29_WebhookNotImplemented ==
    /\ [][AtGate => /\ pc' = "except"
                    /\ exc' = NotImplementedMessage
                    /\ user_feedback' = user_feedback]_vars
    /\ [](user_feedback = NoFeedback /\ plan_review = "none")
    /\ []((Returned /\ user_feedback_required) =>
             /\ ~results.cycle_completed
             /\ results.errors = << CycleFailedPrefix \o NotImplementedMessage >>
             /\ results.steps_completed = <<>>
             /\ ~results.committed
             /\ runs = 0)

C29_Witness ==
    /\ Returned
    /\ user_feedback_required
    /\ gate_calls.plan = 1
    /\ results.errors = << CycleFailedPrefix \o NotImplementedMessage >>

\* the failure gate of the running or last cycle has answered
FailureAnswered == gate_calls.failure = 1

\* the answer lets the cycle go on despite the failures
ContinueWithFailures ==
    user_feedback.continue /\ PriorityAction(user_feedback.text) = "continue"

ReviewedAndCommitted ==
    /\ InSeq("spec_review", results.steps_completed)
    /\ InSeq("commit", results.steps_completed)

\* C30: after all attempts failed with at most 2 errors (the failure gate is
\* reached), the cycle terminates; it proceeds to spec_review and commit if
\* and only if the gate returns continue = true with a text classified as
\* continue-with-failures, and the stage status is then
\* continued_with_failures; for every other answer (retry-different,
\* simplify, generic retry with continue = true, or continue = false) the
\* stage status is aborted, verification is not run again after the gate,
\* and the cycle ends without spec_review or commit.
C30_FailureDecision ==
    /\ [](pc = "failure_gate" =>
             /\ AllFailed
             /\ runs = max_attempts
             /\ Len(test_result.errors) <= 2)
    /\ (pc = "failure_gate") ~> Returned
    /\ [][((pc = "failure_gate" \/ FailureAnswered) /\ ~Returned) =>
              runs' = runs]_vars
    /\ []((Returned /\ FailureAnswered) =>
             IF ContinueWithFailures
             THEN /\ test_check_result.status = "continued_with_failures"
                  /\ ReviewedAndCommitted
             ELSE /\ test_check_result.status = "aborted"
                  /\ ~InSeq("spec_review", results.steps_completed)
                  /\ ~InSeq("commit", results.steps_completed)
                  /\ ~results.committed
                  /\ ~results.cycle_completed)

C30_Witness ==
    /\ Returned
    /\ FailureAnswered
    /\ user_feedback = [text |-> <<"try", "a", "Different", "approach">>,
                        continue |-> TRUE]
    /\ test_check_result.status = "aborted"
    /\ runs = max_attempts

\* a gate of the running or last cycle answered continue = false
GateRefused == ~user_feedback.continue

CommittedNote(note) == IsPrefix(<<"Committed", "changes:">>, note)

\* C31: once the Feedback Gate has returned continue = false in a cycle (at
\* the plan review or at the failure escalation), the commit stage is not
\* executed in that cycle: committed and cycle_completed stay false, commit
\* is not among the completed stages, and no "Committed changes" note is
\* persisted.
C31_NoCommitAfterStop ==
    GateRefused =>
        /\ ~results.committed
        /\ ~results.cycle_completed
        /\ ~InSeq("commit", results.steps_completed)
        /\ pc # "commit"
        /\ \A i \in DOMAIN Persisted.notes : ~CommittedNote(Persisted.notes[i])

C31_Witness ==
    /\ Returned
    /\ GateRefused
    /\ gate_calls.failure = 1
    /\ InSeq("test_check", results.steps_completed)

\* C32: in every result returned by run_refinement_cycle, errors is empty
\* if and only if cycle_completed is true.
C32_ErrorsIffNotCompleted ==
    Returned => (results.errors = <<>> <=> results.cycle_completed)

\* C33: the user_feedback_required flag of the returned Cycle Result is true
\* exactly when the Feedback Gate was invoked for plan review in that cycle,
\* that is, when the plan stage reported user_feedback_required.
C33_FlagMatchesPlanReview ==
    Returned =>
        /\ results.user_feedback_required <=> gate_calls.plan >= 1
        /\ results.user_feedback_required <=> user_feedback_required

GateCalls == gate_calls.plan + gate_calls.failure

C35_HistoryImmutable ==
    [][/\ Len(plan_history') >= Len(plan_history)
       /\ \A i \in DOMAIN plan_history : plan_history'[i] = plan_history[i]]_vars

\* the step is a call of accept_user_feedback
FeedbackGiven == feedback_calls' = feedback_calls + 1

HasModifications(feedback) == "modifications" \in DOMAIN feedback

\* C37: accept_user_feedback changes the current plan only when the
\* feedback carries modifications and is not approved, and then only
\* overwrites keys the plan already has, with the given values (unknown keys
\* are never added); without a current plan it returns an error, with
\* approved = true it returns status approved, with neither key it returns
\* status pending, and in these three cases the plan is left unchanged.
C37_FeedbackFrame ==
    [][FeedbackGiven =>
         LET feedback == feedback_call'.feedback
             result == feedback_call'.result
         IN /\ current_plan' # current_plan =>
                   (HasModifications(feedback) /\ ~Approved(feedback))
            /\ DOMAIN current_plan' = DOMAIN current_plan
            /\ \A k \in DOMAIN current_plan :
                   current_plan'[k] # current_plan[k] =>
                       /\ k \in DOMAIN feedback.modifications
                       /\ current_plan'[k] = feedback.modifications[k]
            /\ IF current_plan = NoPlan
               THEN DOMAIN result = {"error"} /\ current_plan' = current_plan
               ELSE IF Approved(feedback)
               THEN result.status = "approved" /\ current_plan' = current_plan
               ELSE IF HasModifications(feedback)
               THEN /\ result.status = "modified"
                    /\ \A k \in DOMAIN current_plan \cap DOMAIN feedback.modifications :
                           current_plan'[k] = feedback.modifications[k]
               ELSE result.status = "pending" /\ current_plan' = current_plan]_vars

C37_Witness ==
    /\ feedback_calls = 1
    /\ current_plan # NoPlan
    /\ feedback_call.feedback = [modifications |-> [summary |-> ModifiedSummary,
                                                    owner |-> <<"me">>]]
    /\ feedback_call.result.status = "modified"
    /\ current_plan.summary = ModifiedSummary
    /\ "owner" \notin DOMAIN current_plan

MdPersisted == md_load_progress(md')

\* C36: for the markdown store, writing a record and loading it returns the
\* same record, also when its details or notes list is empty; so add_note
\* on a store without a file leaves details empty, and add_note right after
\* an update with notes = [] yields notes of length 1.
C36_MarkdownRoundTrip ==
    /\ [][md_call'.op = "write_load" => md_call'.result = md_call'.arg]_vars
    /\ [][(~md.exists /\ md_call'.op = "add_note") =>
              MdPersisted.details = <<>>]_vars
    /\ [][(/\ md_call.op = "update"
           /\ "notes" \in DOMAIN md_call.arg
           /\ md_call.arg.notes = <<>>
           /\ md_call'.op = "add_note") =>
              Len(MdPersisted.notes) = 1]_vars

\* C38: after any sequence of advance_step calls on a loaded playbook, the
\* progress index is a valid index of the playbook's steps
\* (0 <= progress < number of steps), also after a call made at the last step.
C38_ProgressInRange ==
    system.playbook # <<>> =>
        (0 <= system.progress /\ system.progress < Len(system.playbook))

\* AgenticSystem.run_refinement_cycle has returned to its caller
SystemReturned == Returned /\ cycles > 0 /\ Recorded = cycles

ErrorNote(note) == IsPrefix(<<"Error", "in", "refinement", "cycle:">>, note)

\* C39: whenever the coordinator's result has a non-empty errors list,
\* AgenticSystem.run_refinement_cycle adds an "Error in refinement cycle"
\* note to the progress store, and every call appends exactly one
\* refinement_cycle_completed event to the history.
C39_ErrorNoteAdded ==
    /\ (SystemReturned /\ results.errors # <<>>) =>
           \E i \in DOMAIN Persisted.notes : ErrorNote(Persisted.notes[i])
    /\ Recorded <= cycles
    /\ Returned => Recorded >= cycles - 1

====
